---- MODULE Spec2Model ----
(***************************************************************************)
(* Participation / referral / promo-code engine of the giveaway bot        *)
(* (app/bot/handlers.py, app/models.py, app/admin/admin_app.py).           *)
(*                                                                         *)
(* The bot runs on one asyncio event loop and talks to the store through   *)
(* synchronous SQLAlchemy sessions, so the code between two network awaits *)
(* runs without interleaving.  Each action below is one such stretch of a  *)
(* handler.  The only handler that keeps unsaved row changes across a      *)
(* network await is register_participation (the milestone notification,    *)
(* handlers.py:625); it is split in register_participation / JoinResume.   *)
(* create_giveaway_channel reads the collected data after its await of     *)
(* bot.get_chat (handlers.py:356); it is split in CreateGiveawayChannel /  *)
(* ChannelResume.                                                          *)
(***************************************************************************)
EXTENDS Integers, Sequences, FiniteSets, TLC

(***************************************************************************)
(* Bounds of the model                                                     *)
(***************************************************************************)
NUsers == 2
NRefUsers == 7
MaxTime == 1
MaxUsesInput == 2
MaxGiveaways == 2
MaxLimit == 3
PerWindow == 60
PerShort == 2
MaxAdmits == 4
MaxChecks == 2

(***************************************************************************)
(* Program constants                                                       *)
(***************************************************************************)
InviteMilestone == 5
CodeMaxLen == 64

None == "None"

\* a NULL or empty text column (channel_username): the bot stores NULL, the web
\* form the empty string, and every reader tests the column for truth
NoText == <<>>

\* config.ADMIN_IDS as loaded from the environment: user 1 is the administrator
ADMIN_IDS == {1}

(***************************************************************************)
(* Text: a message text is a sequence of one-character strings.            *)
(***************************************************************************)
Digits == {"0", "1", "2", "3", "4", "5", "6", "7", "8", "9"}
Letters == {"A", "B", "c", "o", "d", "e", "C", "O", "D", "E", "r", "f", "T", "t", "m", "h",
            "a", "n", "x"}
CodeChars == Letters \cup Digits \cup {"_", "-"}
Spaces == {" "}

DigitVal(c) ==
    CASE c = "0" -> 0 [] c = "1" -> 1 [] c = "2" -> 2 [] c = "3" -> 3
      [] c = "4" -> 4 [] c = "5" -> 5 [] c = "6" -> 6 [] c = "7" -> 7
      [] c = "8" -> 8 [] c = "9" -> 9

\* str.lower() on the characters of the alphabet
LowerChar(c) ==
    CASE c = "A" -> "a" [] c = "B" -> "b" [] c = "C" -> "c" [] c = "O" -> "o"
      [] c = "D" -> "d" [] c = "E" -> "e" [] OTHER -> c

Lower(s) == [i \in 1..Len(s) |-> LowerChar(s[i])]

RECURSIVE LStrip(_)
LStrip(s) == IF s # <<>> /\ Head(s) \in Spaces THEN LStrip(Tail(s)) ELSE s

RECURSIVE RStrip(_)
RStrip(s) ==
    IF s # <<>> /\ s[Len(s)] \in Spaces THEN RStrip(SubSeq(s, 1, Len(s) - 1)) ELSE s

\* str.strip()
Strip(s) == RStrip(LStrip(s))

\* index of the first occurrence of character c in s, 0 when absent
RECURSIVE IndexFrom(_, _, _)
IndexFrom(s, c, i) ==
    IF i > Len(s) THEN 0 ELSE IF s[i] = c THEN i ELSE IndexFrom(s, c, i + 1)

IndexOf(s, c) == IndexFrom(s, c, 1)

\* str.split() with no separator: the whitespace-separated words
RECURSIVE SplitWs(_)
SplitWs(s) ==
    LET t == LStrip(s)
        k == IndexOf(t, " ")
    IN  IF t = <<>> THEN <<>>
        ELSE IF k = 0 THEN <<t>>
        ELSE <<SubSeq(t, 1, k - 1)>> \o SplitWs(SubSeq(t, k + 1, Len(t)))

\* s.split(c, 1)[0] and the rest after the first c
BeforeFirst(s, c) == IF IndexOf(s, c) = 0 THEN s ELSE SubSeq(s, 1, IndexOf(s, c) - 1)
AfterFirst(s, c) == SubSeq(s, IndexOf(s, c) + 1, Len(s))

\* characters that str.isdigit() accepts and int() refuses: "sup2" stands for the
\* superscript two, U+00B2
SuperDigits == {"sup2"}

\* str.isdigit()
IsDigit(s) == s # <<>> /\ \A i \in 1..Len(s) : s[i] \in Digits \cup SuperDigits

\* the digit strings int() and the \d of strptime read
IsDecimal(s) == s # <<>> /\ \A i \in 1..Len(s) : s[i] \in Digits

RECURSIVE DigitsVal(_)
DigitsVal(s) ==
    IF s = <<>> THEN 0 ELSE 10 * DigitsVal(SubSeq(s, 1, Len(s) - 1)) + DigitVal(s[Len(s)])

\* s.split(c): the parts between the occurrences of character c
RECURSIVE SplitAll(_, _)
SplitAll(s, c) ==
    IF IndexOf(s, c) = 0 THEN <<s>>
    ELSE <<BeforeFirst(s, c)>> \o SplitAll(AfterFirst(s, c), c)

\* the longest prefix of s made of characters of set cs
RECURSIVE TakeWhile(_, _)
TakeWhile(s, cs) ==
    IF s # <<>> /\ Head(s) \in cs THEN <<Head(s)>> \o TakeWhile(Tail(s), cs) ELSE <<>>

Min(a, b) == IF a <= b THEN a ELSE b

\* datetime.strptime(txt, "%Y-%m-%d %H:%M"): a four-digit year, one or two digits
\* for the other fields, each in its range
IsLeap(y) == (y % 4 = 0 /\ y % 100 # 0) \/ y % 400 = 0

DaysInMonth(y, m) ==
    IF m = 2 THEN (IF IsLeap(y) THEN 29 ELSE 28)
    ELSE IF m \in {4, 6, 9, 11} THEN 30 ELSE 31

StrptimeFields(txt) ==
    LET w == SplitWs(txt)
        d == IF Len(w) = 2 THEN SplitAll(w[1], "-") ELSE <<>>
        t == IF Len(w) = 2 THEN SplitAll(w[2], ":") ELSE <<>>
    IN  IF Len(d) = 3 /\ Len(t) = 2 THEN d \o t ELSE <<>>

StrptimeOk(txt) ==
    LET f == StrptimeFields(txt)
    IN  /\ Len(f) = 5
        /\ \A i \in 1..5 : IsDecimal(f[i])
        /\ Len(f[1]) = 4
        /\ \A i \in 2..5 : Len(f[i]) <= 2
        /\ DigitsVal(f[1]) >= 1
        /\ DigitsVal(f[2]) \in 1..12
        /\ DigitsVal(f[3]) \in 1..DaysInMonth(DigitsVal(f[1]), DigitsVal(f[2]))
        /\ DigitsVal(f[4]) \in 0..23
        /\ DigitsVal(f[5]) \in 0..59

\* days from 0001-01-01 to the given date (datetime.toordinal() - 1)
RECURSIVE DaysBeforeMonth(_, _)
DaysBeforeMonth(y, m) ==
    IF m = 1 THEN 0 ELSE DaysBeforeMonth(y, m - 1) + DaysInMonth(y, m - 1)

Ordinal(y, m, d) ==
    365 * (y - 1) + ((y - 1) \div 4) - ((y - 1) \div 100) + ((y - 1) \div 400)
        + DaysBeforeMonth(y, m) + (d - 1)

\* the instant the wall clock of the model counts its minutes from
Epoch == <<2026, 1, 1, 0, 0>>

Minutes(f) == (Ordinal(f[1], f[2], f[3]) * 24 + f[4]) * 60 + f[5]

\* the parsed datetime as a reading of the clock: minutes since Epoch
StrptimeVal(txt) ==
    LET f == StrptimeFields(txt)
    IN  Minutes([i \in 1..5 |-> DigitsVal(f[i])]) - Minutes(Epoch)

\* _CODE_RE = ^[A-Za-z0-9_-]{1,64}$
valid_code(code) ==
    /\ Len(code) >= 1
    /\ Len(code) <= CodeMaxLen
    /\ \A i \in 1..Len(code) : code[i] \in CodeChars

\* int(s) of Python: surrounding blanks, an optional sign, then digits that
\* may be grouped by single underscores
PyIntBody(s) == LET t == Strip(s) IN IF t # <<>> /\ Head(t) \in {"+", "-"} THEN Tail(t) ELSE t

PyIntOk(s) ==
    LET b == PyIntBody(s)
    IN  /\ b # <<>>
        /\ \A i \in 1..Len(b) : b[i] \in Digits \cup {"_"}
        /\ b[1] \in Digits
        /\ b[Len(b)] \in Digits
        /\ \A i \in 1..(Len(b) - 1) : ~(b[i] = "_" /\ b[i + 1] = "_")

PyIntVal(s) ==
    LET t == Strip(s)
        b == SelectSeq(PyIntBody(s), LAMBDA c : c \in Digits)
    IN  IF Head(t) = "-" THEN 0 - DigitsVal(b) ELSE DigitsVal(b)

(***************************************************************************)
(* State                                                                   *)
(***************************************************************************)
VARIABLES
    now,           \* now_local(), the wall clock
    giveaways,     \* table giveaways: id -> row
    participants,  \* table participants: set of rows
    referrals,     \* table referrals: set of rows
    promocodes,    \* table promocodes: set of rows
    promouses,     \* table promouses: set of rows
    USER_MODE,     \* handlers.USER_MODE, read through mode_of
    fsm,           \* FSMContext per user: state and data
    joinTask,      \* register_participation suspended at the milestone notification
    memberChecks,  \* the bot.get_chat_member calls made so far: <<channel, user, status>>
    linkStarts,    \* the referral-link starts answered with the welcome: <<gid, inviter, user>>
    chatTask,      \* create_giveaway_channel suspended at bot.get_chat
    notices,       \* the milestone notifications delivered: <<gid, inviter, invited_count, joiner>>
    events,        \* SimpleRateLimit._events: key -> timestamps
    admits,        \* per key: every timestamp allow() admitted, the least per_seconds a call gave
    resp           \* the last handler run and what it answered

storeVars == <<giveaways, participants, referrals, promocodes, promouses>>
rateVars == <<events, admits>>
vars == <<now, giveaways, participants, referrals, promocodes, promouses,
          USER_MODE, fsm, joinTask, memberChecks, linkStarts, chatTask, notices,
          events, admits, resp>>

NoCode == <<>>
EmptyData == <<>>
NoState == [state |-> None, data |-> EmptyData]

\* read: the giveaway rows the handler loaded; listed: the giveaways it presented
\* as active
Resp(op, user, gid, code, inviter, outcome, read, listed) ==
    [op |-> op, user |-> user, gid |-> gid, code |-> code, inviter |-> inviter,
     outcome |-> outcome, read |-> read, listed |-> listed]

(***************************************************************************)
(* Store: rows, unique constraints, conditional updates                    *)
(***************************************************************************)
\* Primary keys.  The store promises only that a key names one row; rows are
\* never deleted.  A row is named here by the columns of its unique constraint
\* together with id, its rank among the rows holding the same values in those
\* columns (always 1 while the constraint is enforced).
NextId(sameKey) == Cardinality(sameKey) + 1

\* UniqueConstraint("giveaway_id", "user_id", name="uq_participant")
uq_participant_dropped(tbl, gid, uid) == TRUE

uq_participant_free(tbl, gid, uid) ==
    ~\E p \in tbl : p.giveaway_id = gid /\ p.user_id = uid

\* UniqueConstraint("giveaway_id", "code", name="uq_code")
uq_code_dropped(tbl, gid, code) == TRUE

uq_code_free(tbl, gid, code) ==
    ~\E c \in tbl : c.giveaway_id = gid /\ c.code = code

\* UniqueConstraint("giveaway_id", "user_id", "code", name="uq_user_code")
uq_user_code_dropped(tbl, gid, uid, code) == TRUE

uq_user_code_free(tbl, gid, uid, code) ==
    ~\E x \in tbl : x.giveaway_id = gid /\ x.user_id = uid /\ x.code = code

\* UniqueConstraint("giveaway_id", "invited_id", name="uq_invited_once")
uq_invited_once(tbl) ==
    \A r1, r2 \in tbl :
        (r1.giveaway_id = r2.giveaway_id /\ r1.invited_id = r2.invited_id) => r1 = r2

\* select(...).scalars().first() over a non-empty result: the row of least id
First(rows) == CHOOSE r \in rows : \A q \in rows : r.id <= q.id

ParticipantRows(tbl, gid, uid) == {p \in tbl : p.giveaway_id = gid /\ p.user_id = uid}

PromoCodeRows(tbl, gid, code) == {c \in tbl : c.giveaway_id = gid /\ c.code = code}

ReferralRows(tbl, gid, uid) == {r \in tbl : r.giveaway_id = gid /\ r.invited_id = uid}

\* UPDATE participants ... WHERE id = <row's key>
UpdateParticipant(tbl, row) ==
    {IF r.giveaway_id = row.giveaway_id /\ r.user_id = row.user_id /\ r.id = row.id
     THEN row ELSE r : r \in tbl}

UpdatePromoCode_byCode(tbl, row) ==
    {IF r.code = row.code THEN [r EXCEPT !.uses = row.uses] ELSE r : r \in tbl}

\* UPDATE promocodes ... WHERE id = <row's key>
UpdatePromoCode(tbl, row) ==
    {IF r.giveaway_id = row.giveaway_id /\ r.code = row.code /\ r.id = row.id
     THEN row ELSE r : r \in tbl}

is_admin(uid) == uid \in ADMIN_IDS
mode_of(uid) == USER_MODE[uid]

\* mode_of(id) != "admin" or not is_admin(id), negated
AdminNow_modeForgotten(uid) == is_admin(uid)

AdminNow(uid) == ~(mode_of(uid) # "admin" \/ ~is_admin(uid))

\* deactivate_if_expired: the condition, and the table after its commit
\* ends_at is <<>> for NULL and <<t>> for a deadline t
Expired_afterOnly(g, t) == g.is_active /\ g.ends_at # <<>> /\ g.ends_at[1] < t

Expired(g, t) == g.is_active /\ g.ends_at # <<>> /\ g.ends_at[1] <= t

Deactivate_removing(gs, gid) ==
    [i \in 1..(Len(gs) - 1) |-> IF i < gid THEN gs[i] ELSE gs[i + 1]]

Deactivate(gs, gid) == [gs EXCEPT ![gid].is_active = FALSE]

deactivate_if_expired(gs, gid, t) == IF Expired(gs[gid], t) THEN Deactivate(gs, gid) ELSE gs

(***************************************************************************)
(* Promo-code redemption: user_code, user_redeem_code                      *)
(***************************************************************************)
\* the code a redemption message names (handlers.py:707-712)
RedeemToken(txt) ==
    LET parts == SplitWs(txt)
        tok == IF Len(parts) >= 2 /\ Lower(parts[1]) = <<"c", "o", "d", "e">>
               THEN parts[Len(parts)] ELSE parts[1]
    IN  IF IndexOf(tok, ":") # 0 THEN Strip(BeforeFirst(tok, ":")) ELSE tok

\* not pc.is_active or pc.uses >= pc.max_uses, negated
CodeUsable_offByOne(pc) == pc.is_active /\ ~(pc.uses > pc.max_uses)

CodeUsable(pc) == pc.is_active /\ ~(pc.uses >= pc.max_uses)

\* the checks of user_redeem_code before the PromoUse insert, in the code's order
RedeemCheck_codeFirst(gs, ps, pcs, t, gid, uid, code) ==
    IF gid \notin DOMAIN gs \/ ~gs[gid].is_active THEN "giveaway_inactive"
    ELSE IF Expired(gs[gid], t) \/ ~gs[gid].is_active THEN "deadline_passed"
    ELSE IF PromoCodeRows(pcs, gid, code) = {}
            \/ ~CodeUsable(First(PromoCodeRows(pcs, gid, code))) THEN "code_invalid"
    ELSE IF ParticipantRows(ps, gid, uid) = {} THEN "not_participant"
    ELSE "pass"

RedeemCheck(gs, ps, pcs, t, gid, uid, code) ==
    IF gid \notin DOMAIN gs \/ ~gs[gid].is_active THEN "giveaway_inactive"
    ELSE IF Expired(gs[gid], t) \/ ~gs[gid].is_active THEN "deadline_passed"
    ELSE IF ParticipantRows(ps, gid, uid) = {} THEN "not_participant"
    ELSE IF PromoCodeRows(pcs, gid, code) = {}
            \/ ~CodeUsable(First(PromoCodeRows(pcs, gid, code))) THEN "code_invalid"
    ELSE "pass"

\* pc.uses += 1
IncUses(pc) == [pc EXCEPT !.uses = @ + 1]

\* p.tickets += 1
IncTickets_forgotten(p) == p

IncTickets(p) == [p EXCEPT !.tickets = @ + 1]

NewPromoUse(tbl, gid, uid, code) ==
    [id |-> NextId({x \in tbl : x.giveaway_id = gid /\ x.user_id = uid /\ x.code = code}),
     giveaway_id |-> gid, user_id |-> uid, code |-> code]

\* the giveaway rows a redemption that reaches the store has loaded
RedeemRead(gs, gid) == IF gid \in DOMAIN gs THEN {gid} ELSE {}

UserCode_keepingData(u, gid) ==
    /\ joinTask[u] = <<>>
    /\ fsm' = [fsm EXCEPT ![u] = [state |-> "RedeemPromo.value",
                                  data |-> ("giveaway_id" :> gid) @@ fsm[u].data]]
    /\ resp' = Resp("code", u, gid, NoCode, 0, "prompt", {}, {})
    /\ UNCHANGED <<now, storeVars, USER_MODE, joinTask, memberChecks, linkStarts>>
    /\ UNCHANGED <<chatTask, notices, rateVars>>

\* callback code:<gid>
UserCode(u, gid) ==
    /\ joinTask[u] = <<>>
    /\ fsm' = [fsm EXCEPT ![u] = [state |-> "RedeemPromo.value",
                                  data |-> ("giveaway_id" :> gid)]]
    /\ resp' = Resp("code", u, gid, NoCode, 0, "prompt", {}, {})
    /\ UNCHANGED <<now, storeVars, USER_MODE, joinTask, memberChecks, linkStarts>>
    /\ UNCHANGED <<chatTask, notices, rateVars>>

\* a text message while the user is in RedeemPromo.value
UserRedeemCode(u, text) ==
    /\ joinTask[u] = <<>>
    /\ fsm[u].state = "RedeemPromo.value"
    /\ LET gid == fsm[u].data["giveaway_id"]
           txt == Strip(text)
           code == RedeemToken(txt)
           chk == RedeemCheck(giveaways, participants, promocodes, now, gid, u, code)
           p == First(ParticipantRows(participants, gid, u))
           pc == First(PromoCodeRows(promocodes, gid, code))
           Answer(c, outcome, read) == resp' = Resp("redeem", u, gid, c, 0, outcome, read, {})
       IN  IF txt = <<>> THEN
               /\ Answer(NoCode, "empty_text", {})
               /\ UNCHANGED <<storeVars, fsm>>
           ELSE IF ~valid_code(code) THEN
               /\ Answer(code, "bad_format", {})
               /\ UNCHANGED <<storeVars, fsm>>
           ELSE IF chk = "giveaway_inactive" THEN
               /\ Answer(code, chk, RedeemRead(giveaways, gid))
               /\ fsm' = [fsm EXCEPT ![u] = NoState]
               /\ UNCHANGED storeVars
           ELSE IF chk = "deadline_passed" THEN
               /\ Answer(code, chk, {gid})
               /\ giveaways' = deactivate_if_expired(giveaways, gid, now)
               /\ fsm' = [fsm EXCEPT ![u] = NoState]
               /\ UNCHANGED <<participants, referrals, promocodes, promouses>>
           ELSE IF chk = "not_participant" THEN
               /\ Answer(code, chk, {gid})
               /\ UNCHANGED <<storeVars, fsm>>
           ELSE IF chk = "code_invalid" THEN
               /\ Answer(code, chk, {gid})
               /\ fsm' = [fsm EXCEPT ![u] = NoState]
               /\ UNCHANGED storeVars
           ELSE IF ~uq_user_code_free(promouses, gid, u, code) THEN
               \* IntegrityError on flush: rollback
               /\ Answer(code, "already_redeemed", {gid})
               /\ fsm' = [fsm EXCEPT ![u] = NoState]
               /\ UNCHANGED storeVars
           ELSE
               /\ promouses' = promouses \cup
                      {NewPromoUse(promouses, gid, u, code)}
               /\ promocodes' = UpdatePromoCode(promocodes, IncUses(pc))
               /\ participants' = UpdateParticipant(participants, IncTickets(p))
               /\ Answer(code, "accepted", {gid})
               /\ fsm' = [fsm EXCEPT ![u] = NoState]
               /\ UNCHANGED <<giveaways, referrals>>
    /\ UNCHANGED <<now, USER_MODE, joinTask, memberChecks, linkStarts>>
    /\ UNCHANGED <<chatTask, notices, rateVars>>

(***************************************************************************)
(* Joining: user_join, user_join_ok, register_participation                *)
(***************************************************************************)
\* r.inviter_id != cb.from_user.id
BonusApplies_selfToo(r, uid) == TRUE

BonusApplies(r, uid) == r.inviter_id # uid

\* inviter.invited_count % 5 == 0
AtMilestone(count) == count % InviteMilestone = 0

\* Participant(..., tickets=1, invited_count=0)
NewParticipant_retroactive(tbl, gid, uid) ==
    [id |-> NextId(ParticipantRows(tbl, gid, uid)), giveaway_id |-> gid, user_id |-> uid,
     tickets |-> 1, invited_count |-> Cardinality({p \in tbl : p.giveaway_id = gid})]

NewParticipant(tbl, gid, uid) ==
    [id |-> NextId(ParticipantRows(tbl, gid, uid)), giveaway_id |-> gid, user_id |-> uid,
     tickets |-> 1, invited_count |-> 0]

\* register_participation up to its answer, or up to the await of the milestone
\* notification, where the session still holds the inviter's unsaved changes
register_participation(u, gid, op) ==
    LET Answer(inviter, outcome, read) ==
            resp' = Resp(op, u, gid, NoCode, inviter, outcome, read, {})
    IN  IF gid \notin DOMAIN giveaways THEN
            /\ Answer(0, "not_found", {})
            /\ UNCHANGED <<giveaways, participants, joinTask>>
        ELSE IF Expired(giveaways[gid], now) \/ ~giveaways[gid].is_active THEN
            /\ Answer(0, "finished", {gid})
            /\ giveaways' = deactivate_if_expired(giveaways, gid, now)
            /\ UNCHANGED <<participants, joinTask>>
        ELSE IF ~uq_participant_free(participants, gid, u) THEN
            \* IntegrityError on commit: rollback
            /\ Answer(0, "already_joined", {gid})
            /\ UNCHANGED <<giveaways, participants, joinTask>>
        ELSE
            LET joined == participants \cup {NewParticipant(participants, gid, u)}
                refs == ReferralRows(referrals, gid, u)
                r == First(refs)
                inviters == ParticipantRows(joined, gid, r.inviter_id)
                inviter == First(inviters)
                counted == [inviter EXCEPT !.invited_count = @ + 1]
            IN  IF refs = {} \/ ~BonusApplies(r, u) \/ inviters = {} THEN
                    /\ participants' = joined
                    /\ Answer(0, "joined", {gid})
                    /\ UNCHANGED <<giveaways, joinTask>>
                ELSE IF ~AtMilestone(counted.invited_count) THEN
                    /\ participants' = UpdateParticipant(joined, counted)
                    /\ Answer(r.inviter_id, "joined", {gid})
                    /\ UNCHANGED <<giveaways, joinTask>>
                ELSE
                    /\ participants' = joined
                    /\ joinTask' = [joinTask EXCEPT ![u] =
                           <<[op |-> op, gid |-> gid, row |-> IncTickets(counted)]>>]
                    /\ Answer(r.inviter_id, "notifying", {gid})
                    /\ UNCHANGED giveaways

\* callback join:<gid>
UserJoin(u, gid) ==
    /\ joinTask[u] = <<>>
    /\ IF gid \in DOMAIN giveaways
          /\ ~(Expired(giveaways[gid], now) \/ ~giveaways[gid].is_active)
          /\ giveaways[gid].channel_username # NoText
       THEN /\ resp' = Resp("join", u, gid, NoCode, 0, "subscribe_prompt", {gid}, {})
            /\ UNCHANGED <<giveaways, participants, joinTask>>
       ELSE register_participation(u, gid, "join")
    /\ UNCHANGED <<now, referrals, promocodes, promouses, USER_MODE, fsm,
                   memberChecks, linkStarts>>
    /\ UNCHANGED <<chatTask, notices, rateVars>>

\* callback join_ok:<gid>
UserJoinOk(u, gid) ==
    /\ joinTask[u] = <<>>
    /\ register_participation(u, gid, "join_ok")
    /\ UNCHANGED <<now, referrals, promocodes, promouses, USER_MODE, fsm,
                   memberChecks, linkStarts>>
    /\ UNCHANGED <<chatTask, notices, rateVars>>

\* db.commit() after the await of the notification: the exception of a failed
\* send is swallowed (except Exception: pass), the pending row is written either way
CommitAfterNotify_rollback(tbl, row, delivered) ==
    IF delivered THEN UpdateParticipant(tbl, row) ELSE tbl

CommitAfterNotify(tbl, row, delivered) == UpdateParticipant(tbl, row)

\* register_participation from the return of bot.send_message (delivered, or raised)
\* to its end: db.commit() writes the invited_count and tickets the session computed
\* before the await
JoinResume(u, delivered) ==
    /\ joinTask[u] # <<>>
    /\ participants' = CommitAfterNotify(participants, joinTask[u][1].row, delivered)
    /\ notices' = IF delivered
                  THEN notices \cup {<<joinTask[u][1].gid, joinTask[u][1].row.user_id,
                                       joinTask[u][1].row.invited_count, u>>}
                  ELSE notices
    /\ joinTask' = [joinTask EXCEPT ![u] = <<>>]
    /\ resp' = Resp(joinTask[u][1].op, u, joinTask[u][1].gid, NoCode,
                    joinTask[u][1].row.user_id,
                    "joined", {}, {})
    /\ UNCHANGED <<now, giveaways, referrals, promocodes, promouses, USER_MODE, fsm,
                   memberChecks, linkStarts, chatTask, rateVars>>

(***************************************************************************)
(* /start, the mode switches and the read-only views                       *)
(***************************************************************************)
StartsWith(s, prefix) == Len(s) >= Len(prefix) /\ SubSeq(s, 1, Len(prefix)) = prefix

RefPrefix == <<"r", "e", "f", "_">>

\* payload.split("_", 2): at most three parts
SplitRef(payload) ==
    LET rest == AfterFirst(payload, "_")
    IN  IF IndexOf(rest, "_") = 0 THEN <<BeforeFirst(payload, "_"), rest>>
        ELSE <<BeforeFirst(payload, "_"), BeforeFirst(rest, "_"), AfterFirst(rest, "_")>>

\* the try block of start: the unpacking and both int() calls succeed
RefWellFormed(payload) ==
    /\ Len(SplitRef(payload)) = 3
    /\ PyIntOk(SplitRef(payload)[2])
    /\ PyIntOk(SplitRef(payload)[3])

RefGid(payload) == PyIntVal(SplitRef(payload)[2])
RefInviter(payload) == PyIntVal(SplitRef(payload)[3])

\* /start <payload>; resp carries the payload as code
Start(u, payload) ==
    /\ joinTask[u] = <<>>
    /\ USER_MODE' = [USER_MODE EXCEPT ![u] = "user"]
    /\ IF ~StartsWith(payload, RefPrefix) THEN
           /\ resp' = Resp("start", u, 0, payload, 0, "choose_mode", {}, {})
           /\ UNCHANGED linkStarts
       ELSE IF ~RefWellFormed(payload) THEN
           /\ resp' = Resp("start", u, 0, payload, 0, "invalid_link", {}, {})
           /\ UNCHANGED linkStarts
       ELSE IF RefInviter(payload) = u THEN
           /\ resp' = Resp("start", u, RefGid(payload), payload, RefInviter(payload),
                           "own_link", {}, {})
           /\ UNCHANGED linkStarts
       ELSE
           \* the referral is not saved: the call is commented out (handlers.py:166-167)
           /\ resp' = Resp("start", u, RefGid(payload), payload, RefInviter(payload),
                           "ref_welcome", {}, {})
           /\ linkStarts' = linkStarts \cup {<<RefGid(payload), RefInviter(payload), u>>}
    /\ UNCHANGED <<now, storeVars, fsm, joinTask, memberChecks>>
    /\ UNCHANGED <<chatTask, notices, rateVars>>

\* the "admin" button
SwitchAdmin(u) ==
    /\ joinTask[u] = <<>>
    /\ IF ~is_admin(u)
       THEN /\ USER_MODE' = [USER_MODE EXCEPT ![u] = "user"]
            /\ resp' = Resp("switch_admin", u, 0, NoCode, 0, "denied", {}, {})
       ELSE /\ USER_MODE' = [USER_MODE EXCEPT ![u] = "admin"]
            /\ resp' = Resp("switch_admin", u, 0, NoCode, 0, "admin_menu", {}, {})
    /\ UNCHANGED <<now, storeVars, fsm, joinTask, memberChecks, linkStarts>>
    /\ UNCHANGED <<chatTask, notices, rateVars>>

\* the "user" button
SwitchUser(u) ==
    /\ joinTask[u] = <<>>
    /\ USER_MODE' = [USER_MODE EXCEPT ![u] = "user"]
    /\ resp' = Resp("switch_user", u, 0, NoCode, 0, "user_menu", {}, {})
    /\ UNCHANGED <<now, storeVars, fsm, joinTask, memberChecks, linkStarts>>
    /\ UNCHANGED <<chatTask, notices, rateVars>>

\* the loop of show_active_giveaways: every expired row is deactivated
DeactivateAllExpired(gs, t) ==
    [g \in DOMAIN gs |-> IF Expired(gs[g], t) THEN [gs[g] EXCEPT !.is_active = FALSE]
                         ELSE gs[g]]

ActiveIds(gs) == {g \in DOMAIN gs : gs[g].is_active}

\* the "active giveaways" button
ShowActiveGiveaways(u) ==
    /\ joinTask[u] = <<>>
    /\ giveaways' = DeactivateAllExpired(giveaways, now)
    /\ resp' = Resp("show", u, 0, NoCode, 0,
                    IF ActiveIds(giveaways') = {} THEN "none" ELSE "cards",
                    DOMAIN giveaways, ActiveIds(giveaways'))
    /\ UNCHANGED <<now, participants, referrals, promocodes, promouses, USER_MODE, fsm,
                   joinTask, memberChecks, linkStarts>>
    /\ UNCHANGED <<chatTask, notices, rateVars>>

\* callback ref:<gid>
UserRef(u, gid) ==
    /\ joinTask[u] = <<>>
    /\ IF gid \notin DOMAIN giveaways THEN
           /\ resp' = Resp("ref", u, gid, NoCode, 0, "inactive", {}, {})
           /\ UNCHANGED giveaways
       ELSE IF ~giveaways[gid].is_active THEN
           /\ resp' = Resp("ref", u, gid, NoCode, 0, "inactive", {gid}, {})
           /\ UNCHANGED giveaways
       ELSE IF Expired(giveaways[gid], now) \/ ~giveaways[gid].is_active THEN
           /\ resp' = Resp("ref", u, gid, NoCode, 0, "finished", {gid}, {})
           /\ giveaways' = deactivate_if_expired(giveaways, gid, now)
       ELSE
           /\ resp' = Resp("ref", u, gid, NoCode, u, "link", {gid}, {gid})
           /\ UNCHANGED giveaways
    /\ UNCHANGED <<now, participants, referrals, promocodes, promouses, USER_MODE, fsm,
                   joinTask, memberChecks, linkStarts>>
    /\ UNCHANGED <<chatTask, notices, rateVars>>

\* GET / of the web administration: the dashboard lists the rows as stored
WebRoot(authed) ==
    /\ IF ~authed
       THEN resp' = Resp("web_root", 0, 0, NoCode, 0, "login", {}, {})
       ELSE resp' = Resp("web_root", 0, 0, NoCode, 0, "dashboard",
                         DOMAIN giveaways, ActiveIds(giveaways))
    /\ UNCHANGED <<now, storeVars, USER_MODE, fsm, joinTask, memberChecks, linkStarts>>
    /\ UNCHANGED <<chatTask, notices, rateVars>>

(***************************************************************************)
(* Administrator: delete a giveaway, create a promo code                   *)
(***************************************************************************)
\* callback del_ok:<gid>
AdminDeleteOk(u, gid) ==
    /\ joinTask[u] = <<>>
    /\ IF ~AdminNow(u) THEN
           /\ resp' = Resp("del_ok", u, gid, NoCode, 0, "denied", {}, {})
           /\ UNCHANGED giveaways
       ELSE IF gid \notin DOMAIN giveaways THEN
           /\ resp' = Resp("del_ok", u, gid, NoCode, 0, "deleted", {}, {})
           /\ UNCHANGED giveaways
       ELSE
           /\ resp' = Resp("del_ok", u, gid, NoCode, 0, "deleted", {gid}, {})
           /\ giveaways' = Deactivate(giveaways, gid)
    /\ UNCHANGED <<now, participants, referrals, promocodes, promouses, USER_MODE, fsm,
                   joinTask, memberChecks, linkStarts>>
    /\ UNCHANGED <<chatTask, notices, rateVars>>

\* callback adm_code:<gid>
AdminCreateCodeFromCard(u, gid) ==
    /\ joinTask[u] = <<>>
    /\ IF ~AdminNow(u) THEN
           /\ resp' = Resp("adm_code", u, gid, NoCode, 0, "denied", {}, {})
           /\ UNCHANGED fsm
       ELSE
           /\ resp' = Resp("adm_code", u, gid, NoCode, 0, "prompt", {}, {})
           /\ fsm' = [fsm EXCEPT ![u] = [state |-> "CreatePromo.value",
                                         data |-> ("giveaway_id" :> gid)]]
    /\ UNCHANGED <<now, storeVars, USER_MODE, joinTask, memberChecks, linkStarts>>
    /\ UNCHANGED <<chatTask, notices, rateVars>>

NewPromoCode(tbl, gid, code, mu) ==
    [id |-> NextId(PromoCodeRows(tbl, gid, code)), giveaway_id |-> gid, code |-> code,
     is_active |-> TRUE,
     max_uses |-> mu, uses |-> 0]

\* CODE or CODE:MAX as the promo-creation steps read it (handlers.py:481-492)
PromoHasMax(txt) == IndexOf(txt, ":") # 0
PromoCodePart(txt) == IF PromoHasMax(txt) THEN Strip(BeforeFirst(txt, ":")) ELSE Strip(txt)
PromoMaxPart(txt) == Strip(AfterFirst(txt, ":"))
PromoMaxOk(txt) == IsDigit(PromoMaxPart(txt)) /\ ~(DigitsVal(PromoMaxPart(txt)) <= 0)
\* max_uses.isdigit() holds and int(max_uses) raises ValueError
PromoMaxRaises(txt) ==
    PromoHasMax(txt) /\ IsDigit(PromoMaxPart(txt)) /\ ~IsDecimal(PromoMaxPart(txt))
PromoMax(txt) == IF PromoHasMax(txt) THEN DigitsVal(PromoMaxPart(txt)) ELSE 1

\* a text message while the user is in CreatePromo.value
AdminCreateCodeValue(u, text) ==
    /\ joinTask[u] = <<>>
    /\ fsm[u].state = "CreatePromo.value"
    /\ LET txt == Strip(text)
           code == PromoCodePart(txt)
           gid == fsm[u].data["giveaway_id"]
           Answer(outcome) == resp' = Resp("adm_code_value", u, gid, code, 0, outcome, {}, {})
       IN  IF ~AdminNow(u) THEN
               /\ resp' = Resp("adm_code_value", u, 0, NoCode, 0, "dropped", {}, {})
               /\ fsm' = [fsm EXCEPT ![u] = NoState]
               /\ UNCHANGED promocodes
           ELSE IF PromoMaxRaises(txt) THEN
               \* the exception leaves the handler
               /\ Answer("error")
               /\ UNCHANGED <<promocodes, fsm>>
           ELSE IF PromoHasMax(txt) /\ ~PromoMaxOk(txt) THEN
               /\ Answer("bad_max")
               /\ UNCHANGED <<promocodes, fsm>>
           ELSE IF ~valid_code(code) THEN
               /\ Answer("bad_format")
               /\ UNCHANGED <<promocodes, fsm>>
           ELSE IF ~uq_code_free(promocodes, gid, code) THEN
               \* IntegrityError on commit: rollback
               /\ Answer("code_exists")
               /\ UNCHANGED <<promocodes, fsm>>
           ELSE
               /\ promocodes' = promocodes \cup
                      {NewPromoCode(promocodes, gid, code, PromoMax(txt))}
               /\ fsm' = [fsm EXCEPT ![u] = NoState]
               /\ Answer("created")
    /\ UNCHANGED <<now, giveaways, participants, referrals, promouses, USER_MODE,
                   joinTask, memberChecks, linkStarts>>
    /\ UNCHANGED <<chatTask, notices, rateVars>>

\* POST /codes/<giveaway_id> of the web administration: no validation of the form
WebCodesCreate(authed, gid, code, max_uses) ==
    /\ IF ~authed THEN
           /\ resp' = Resp("web_codes_create", 0, gid, code, 0, "login", {}, {})
           /\ UNCHANGED promocodes
       ELSE IF ~uq_code_free(promocodes, gid, Strip(code)) THEN
           \* IntegrityError escapes the view: nothing is committed
           /\ resp' = Resp("web_codes_create", 0, gid, Strip(code), 0, "error", {}, {})
           /\ UNCHANGED promocodes
       ELSE
           /\ resp' = Resp("web_codes_create", 0, gid, Strip(code), 0, "created", {}, {})
           /\ promocodes' = promocodes \cup
                  {NewPromoCode(promocodes, gid, Strip(code), max_uses)}
    /\ UNCHANGED <<now, giveaways, participants, referrals, promouses, USER_MODE, fsm,
                   joinTask, memberChecks, linkStarts>>
    /\ UNCHANGED <<chatTask, notices, rateVars>>

\* the wall clock advances
Tick ==
    /\ now < MaxTime
    /\ now' = now + 1
    /\ resp' = Resp("tick", 0, 0, NoCode, 0, "", {}, {})
    /\ UNCHANGED <<storeVars, USER_MODE, fsm, joinTask, memberChecks, linkStarts>>
    /\ UNCHANGED <<chatTask, notices, rateVars>>

(***************************************************************************)
(* Administrator: the giveaway-creation flow                               *)
(***************************************************************************)
\* the button that starts the flow
AdminCreateGiveaway(u) ==
    /\ joinTask[u] = <<>>
    /\ IF ~AdminNow(u) THEN
           /\ resp' = Resp("create", u, 0, NoCode, 0, "denied", {}, {})
           /\ UNCHANGED fsm
       ELSE
           /\ resp' = Resp("create", u, 0, NoCode, 0, "ask_title", {}, {})
           /\ fsm' = [fsm EXCEPT ![u] = [state |-> "CreateGiveaway.title",
                                         data |-> EmptyData]]
    /\ UNCHANGED <<now, storeVars, USER_MODE, joinTask, memberChecks, linkStarts,
                   chatTask, notices, rateVars>>

\* state.update_data(key=value)
UpdateData(data, key, value) == (key :> value) @@ data

\* data.get(key, default)
DataGet(data, key, default) == IF key \in DOMAIN data THEN data[key] ELSE default

CollectStep_abandoning(u, op, state, next, key, ok, value, bad, asked) ==
    /\ joinTask[u] = <<>>
    /\ fsm[u].state = state
    /\ IF ~AdminNow(u) \/ ~ok THEN
           /\ resp' = Resp(op, u, 0, NoCode, 0, IF AdminNow(u) THEN bad ELSE "dropped",
                           {}, {})
           /\ fsm' = [fsm EXCEPT ![u] = NoState]
       ELSE
           /\ resp' = Resp(op, u, 0, NoCode, 0, asked, {}, {})
           /\ fsm' = [fsm EXCEPT ![u] = [state |-> next,
                                         data |-> UpdateData(fsm[u].data, key, value)]]
    /\ UNCHANGED <<now, storeVars, USER_MODE, joinTask, memberChecks, linkStarts,
                   chatTask, notices, rateVars>>

\* one step of the flow that collects a field: the fresh check of the
\* administrator, the validation of the text, the update of the data
CollectStep(u, op, state, next, key, ok, value, bad, asked) ==
    /\ joinTask[u] = <<>>
    /\ fsm[u].state = state
    /\ IF ~AdminNow(u) THEN
           /\ resp' = Resp(op, u, 0, NoCode, 0, "dropped", {}, {})
           /\ fsm' = [fsm EXCEPT ![u] = NoState]
       ELSE IF ~ok THEN
           /\ resp' = Resp(op, u, 0, NoCode, 0, bad, {}, {})
           /\ UNCHANGED fsm
       ELSE
           /\ resp' = Resp(op, u, 0, NoCode, 0, asked, {}, {})
           /\ fsm' = [fsm EXCEPT ![u] = [state |-> next,
                                         data |-> UpdateData(fsm[u].data, key, value)]]
    /\ UNCHANGED <<now, storeVars, USER_MODE, joinTask, memberChecks, linkStarts,
                   chatTask, notices, rateVars>>

\* a text message in CreateGiveaway.title
CreateGiveawayTitle(u, text) ==
    CollectStep(u, "title", "CreateGiveaway.title", "CreateGiveaway.description",
                "title", Strip(text) # <<>>, Strip(text), "empty_title", "ask_description")

\* a text message in CreateGiveaway.description
CreateGiveawayDescription(u, text) ==
    CollectStep(u, "description", "CreateGiveaway.description", "CreateGiveaway.ends_at",
                "description", TRUE, IF Strip(text) = <<"-">> THEN <<>> ELSE Strip(text),
                "", "ask_deadline")

\* a text message in CreateGiveaway.ends_at
CreateGiveawayDeadline(u, text) ==
    CollectStep(u, "deadline", "CreateGiveaway.ends_at", "CreateGiveaway.winners",
                "ends_at", StrptimeOk(Strip(text)), <<StrptimeVal(Strip(text))>>,
                "bad_deadline", "ask_winners")

\* a text message in CreateGiveaway.winners
CreateGiveawayWinners(u, text) ==
    CollectStep(u, "winners", "CreateGiveaway.winners", "CreateGiveaway.channel",
                "winners_count",
                IsDigit(Strip(text)) /\ IsDecimal(Strip(text))
                    /\ ~(DigitsVal(Strip(text)) <= 0),
                DigitsVal(Strip(text)),
                \* int(txt) raises ValueError where only isdigit() holds
                IF IsDigit(Strip(text)) /\ ~IsDecimal(Strip(text))
                THEN "error" ELSE "bad_winners",
                "ask_channel")

ChatNameChars == Letters \cup Digits \cup {"_"}

TmeHosts == {<<"t", ".", "m", "e", "/">>,
             <<"t", "e", "l", "e", "g", "r", "a", "m", ".", "m", "e", "/">>}

\* re.search(r"(https?://)?(t\.me|telegram\.me)/([A-Za-z0-9_]{5,32})", t): the name
\* of the leftmost match from position i on, <<>> when there is none
RECURSIVE TmeName(_, _)
TmeName(t, i) ==
    IF i > Len(t) THEN <<>>
    ELSE LET rest == SubSeq(t, i, Len(t))
             hosts == {h \in TmeHosts : StartsWith(rest, h)}
             h == CHOOSE x \in hosts : TRUE
             name == TakeWhile(SubSeq(rest, Len(h) + 1, Len(rest)), ChatNameChars)
         IN  IF hosts # {} /\ Len(name) >= 5
             THEN SubSeq(name, 1, Min(Len(name), 32))
             ELSE TmeName(t, i + 1)

\* normalize_chat_input, an Optional[str]: <<>> for None, <<ch>> for the string ch
\* (the empty string for the skip, the @name otherwise)
normalize_chat_input(text) ==
    LET t == Strip(text)
        u == Tail(t)
    IN  IF t = <<"-">> THEN <<NoText>>
        ELSE IF TmeName(t, 1) # <<>> THEN <<(<<"@">> \o TmeName(t, 1))>>
        ELSE IF t # <<>> /\ Head(t) = "@"
                /\ Len(u) >= 5 /\ Len(u) <= 32 /\ \A i \in 1..Len(u) : u[i] \in ChatNameChars
             THEN <<t>>
        ELSE <<>>

\* Giveaway(title=..., description=..., ends_at=..., winners_count=...,
\* channel_username=(ch or None), is_active=True) from the data of the flow
NewGiveaway(data, ch) ==
    [title |-> IF Strip(DataGet(data, "title", <<>>)) # <<>>
               THEN Strip(DataGet(data, "title", <<>>)) ELSE <<"?">>,
     description |-> Strip(DataGet(data, "description", <<>>)),
     ends_at |-> DataGet(data, "ends_at", <<>>),
     winners_count |-> DataGet(data, "winners_count", 1),
     channel_username |-> IF ch = <<>> THEN NoText ELSE ch,
     is_active |-> TRUE]

\* db.add(g); db.commit(); gid = g.id: rows are never deleted, the new id is the
\* next one
AddGiveaway(gs, g) == Append(gs, g)

\* the end of create_giveaway_channel: the row, then giveaway_id and the promo state
ChannelCreate(u, op, ch) ==
    /\ giveaways' = AddGiveaway(giveaways, NewGiveaway(fsm[u].data, ch))
    /\ fsm' = [fsm EXCEPT ![u] = [state |-> "CreateGiveaway.promo",
                                  data |-> UpdateData(fsm[u].data, "giveaway_id",
                                                      Len(giveaways) + 1)]]
    /\ resp' = Resp(op, u, Len(giveaways) + 1, NoCode, 0, "created", {}, {})

\* the rows the suspended channel steps may still add
PendingChats == {u \in DOMAIN chatTask : chatTask[u] # <<>>}

\* a text message in CreateGiveaway.channel, up to its answer or up to the await
\* of bot.get_chat
CreateGiveawayChannel(u, text) ==
    /\ joinTask[u] = <<>>
    /\ fsm[u].state = "CreateGiveaway.channel"
    /\ LET norm == normalize_chat_input(text)
           ch == norm[1]
       IN  IF ~AdminNow(u) THEN
               /\ resp' = Resp("channel", u, 0, NoCode, 0, "dropped", {}, {})
               /\ fsm' = [fsm EXCEPT ![u] = NoState]
               /\ UNCHANGED <<giveaways, chatTask>>
           ELSE IF norm = <<>> THEN
               /\ resp' = Resp("channel", u, 0, NoCode, 0, "bad_channel", {}, {})
               /\ UNCHANGED <<giveaways, fsm, chatTask>>
           ELSE IF ch = <<>> THEN
               /\ Len(giveaways) + Cardinality(PendingChats) < MaxGiveaways
               /\ ChannelCreate(u, "channel", ch)
               /\ UNCHANGED chatTask
           ELSE
               /\ chatTask[u] = <<>>
               /\ Len(giveaways) + Cardinality(PendingChats) < MaxGiveaways
               /\ chatTask' = [chatTask EXCEPT ![u] = <<ch>>]
               /\ resp' = Resp("channel", u, 0, NoCode, 0, "resolving", {}, {})
               /\ UNCHANGED <<giveaways, fsm>>
    /\ UNCHANGED <<now, participants, referrals, promocodes, promouses, USER_MODE,
                   joinTask, memberChecks, linkStarts, notices, rateVars>>

\* chat.type of the chats of Telegram; "error" stands for get_chat raising
ChatTypes == {"private", "group", "supergroup", "channel"}

\* create_giveaway_channel from the return of bot.get_chat to its end
ChannelResume(u, chat) ==
    /\ chatTask[u] # <<>>
    /\ chatTask' = [chatTask EXCEPT ![u] = <<>>]
    /\ IF chat = "error" THEN
           /\ resp' = Resp("channel_resume", u, 0, NoCode, 0, "chat_not_found", {}, {})
           /\ UNCHANGED <<giveaways, fsm>>
       ELSE IF chat = "private" THEN
           /\ resp' = Resp("channel_resume", u, 0, NoCode, 0, "private_chat", {}, {})
           /\ UNCHANGED <<giveaways, fsm>>
       ELSE IF chat \notin {"channel", "group", "supergroup"} THEN
           /\ resp' = Resp("channel_resume", u, 0, NoCode, 0, "not_a_channel", {}, {})
           /\ UNCHANGED <<giveaways, fsm>>
       ELSE ChannelCreate(u, "channel_resume", chatTask[u][1])
    /\ UNCHANGED <<now, participants, referrals, promocodes, promouses, USER_MODE,
                   joinTask, memberChecks, linkStarts, notices, rateVars>>

\* a text message in CreateGiveaway.promo
CreateGiveawayPromo(u, text) ==
    /\ joinTask[u] = <<>>
    /\ fsm[u].state = "CreateGiveaway.promo"
    /\ LET txt == Strip(text)
           code == PromoCodePart(txt)
           gid == fsm[u].data["giveaway_id"]
           Answer(outcome) == resp' = Resp("promo", u, gid, code, 0, outcome, {}, {})
       IN  IF ~AdminNow(u) THEN
               /\ resp' = Resp("promo", u, 0, NoCode, 0, "dropped", {}, {})
               /\ fsm' = [fsm EXCEPT ![u] = NoState]
               /\ UNCHANGED promocodes
           ELSE IF txt = <<"-">> THEN
               /\ resp' = Resp("promo", u, gid, NoCode, 0, "done", {}, {})
               /\ fsm' = [fsm EXCEPT ![u] = NoState]
               /\ UNCHANGED promocodes
           ELSE IF PromoMaxRaises(txt) THEN
               \* the exception leaves the handler
               /\ Answer("error")
               /\ UNCHANGED <<promocodes, fsm>>
           ELSE IF PromoHasMax(txt) /\ ~PromoMaxOk(txt) THEN
               /\ Answer("bad_max")
               /\ UNCHANGED <<promocodes, fsm>>
           ELSE IF ~valid_code(code) THEN
               /\ Answer("bad_format")
               /\ UNCHANGED <<promocodes, fsm>>
           ELSE IF ~uq_code_free(promocodes, gid, code) THEN
               \* IntegrityError on commit: rollback
               /\ Answer("code_exists")
               /\ UNCHANGED <<promocodes, fsm>>
           ELSE
               /\ promocodes' = promocodes \cup
                      {NewPromoCode(promocodes, gid, code, PromoMax(txt))}
               /\ fsm' = [fsm EXCEPT ![u] = NoState]
               /\ Answer("created")
    /\ UNCHANGED <<now, giveaways, participants, referrals, promouses, USER_MODE,
                   joinTask, memberChecks, linkStarts, chatTask, notices, rateVars>>

\* POST /giveaway/new of the web administration: no deadline, the channel as typed
WebGiveawayCreate(authed, title, winners_count, channel_username) ==
    /\ IF ~authed THEN
           /\ resp' = Resp("web_giveaway_create", 0, 0, NoCode, 0, "login", {}, {})
           /\ UNCHANGED giveaways
       ELSE
           /\ giveaways' = AddGiveaway(giveaways,
                  [title |-> title, description |-> <<>>, ends_at |-> <<>>,
                   winners_count |-> winners_count,
                   channel_username |-> channel_username, is_active |-> TRUE])
           /\ resp' = Resp("web_giveaway_create", 0, Len(giveaways) + 1, NoCode, 0,
                           "created", {}, {})
    /\ UNCHANGED <<now, participants, referrals, promocodes, promouses, USER_MODE, fsm,
                   joinTask, memberChecks, linkStarts, chatTask, notices, rateVars>>

(***************************************************************************)
(* The membership lookups: ensure_subscribed, check_subscription_soft      *)
(***************************************************************************)
\* ChatMember.status; "error" stands for bot.get_chat_member raising
ChatMemberStatuses ==
    {"creator", "administrator", "member", "restricted", "left", "kicked"}

\* ensure_subscribed, given what bot.get_chat_member did; the returned bool is
\* carried as "True" or "False"
ensure_subscribed(lookup) ==
    IF lookup = "error" THEN "False"
    ELSE IF lookup \in {"creator", "administrator", "member", "restricted"} THEN "True"
    ELSE "False"

\* check_subscription_soft, given what bot.get_chat_member did: "True", "False"
\* or None
check_subscription_soft(channel_username, lookup) ==
    IF channel_username = NoText \/ Strip(channel_username) = <<"-">> THEN "True"
    ELSE IF lookup = "error" THEN None
    ELSE IF lookup \in {"member", "administrator", "creator"} THEN "True"
    ELSE "False"

\* one call of ensure_subscribed(bot, u, chat_username)
EnsureSubscribed(u, chat_username, lookup) ==
    /\ <<chat_username, u, lookup>> \notin memberChecks
    /\ memberChecks' = memberChecks \cup {<<chat_username, u, lookup>>}
    /\ resp' = Resp("ensure_subscribed", u, 0, chat_username, 0,
                    ensure_subscribed(lookup), {}, {})
    /\ UNCHANGED <<now, storeVars, USER_MODE, fsm, joinTask, linkStarts, chatTask,
                   notices, rateVars>>

\* one call of check_subscription_soft(bot, u, channel_username)
CheckSubscriptionSoft(u, channel_username, lookup) ==
    /\ IF channel_username = NoText \/ Strip(channel_username) = <<"-">>
       THEN UNCHANGED memberChecks
       ELSE /\ <<channel_username, u, lookup>> \notin memberChecks
            /\ memberChecks' = memberChecks \cup {<<channel_username, u, lookup>>}
    /\ resp' = Resp("check_subscription_soft", u, 0, channel_username, 0,
                    check_subscription_soft(channel_username, lookup), {}, {})
    /\ UNCHANGED <<now, storeVars, USER_MODE, fsm, joinTask, linkStarts, chatTask,
                   notices, rateVars>>

(***************************************************************************)
(* anti_fraud.SimpleRateLimit                                              *)
(***************************************************************************)
EventsOf_stale(ev, key) ==
    IF key \in DOMAIN ev /\ ev[key] # <<>> THEN SubSeq(ev[key], 1, Len(ev[key]) - 1)
    ELSE <<>>

\* self._events.get(key, [])
EventsOf(ev, key) == IF key \in DOMAIN ev THEN ev[key] ELSE <<>>

\* [t for t in arr if now - t < timedelta(seconds=per_seconds)]
Young_inclusive(arr, t, per_seconds) == SelectSeq(arr, LAMBDA e : t - e <= per_seconds)

Young(arr, t, per_seconds) == SelectSeq(arr, LAMBDA e : t - e < per_seconds)

\* the log of a key: the admitted timestamps and the least per_seconds given so far
NoLog == [at |-> <<>>, per |-> 0]
LogOf(key) == IF key \in DOMAIN admits THEN admits[key] ELSE NoLog
LeastPer(log, per_seconds) ==
    IF log.per = 0 THEN per_seconds ELSE Min(log.per, per_seconds)

\* what allow answers is carried in resp: the key as code, the limit as gid, the
\* window as inviter
RateResp(key, limit, per_seconds, admitted) ==
    Resp("allow", 0, limit, key, per_seconds,
         IF admitted THEN "admitted" ELSE "denied", {}, {})

\* SimpleRateLimit.allow(key, limit, per_seconds) at the time now
allow(key, limit, per_seconds) ==
    /\ LET arr == Young(EventsOf(events, key), now, per_seconds)
           log == LogOf(key)
       IN  IF Len(arr) >= limit THEN
               /\ events' = (key :> arr) @@ events
               /\ admits' = (key :> [log EXCEPT !.per = LeastPer(log, per_seconds)])
                                @@ admits
               /\ resp' = RateResp(key, limit, per_seconds, FALSE)
           ELSE
               /\ events' = (key :> Append(arr, now)) @@ events
               /\ admits' = (key :> [at |-> Append(log.at, now),
                                     per |-> LeastPer(log, per_seconds)]) @@ admits
               /\ resp' = RateResp(key, limit, per_seconds, TRUE)
    /\ UNCHANGED <<now, storeVars, USER_MODE, fsm, joinTask, memberChecks, linkStarts,
                   chatTask, notices>>

\* datetime.utcnow() advances: the clock of this specification counts seconds
RateTick(t) ==
    /\ t > now
    /\ now' = t
    /\ resp' = Resp("tick", 0, 0, NoCode, 0, "", {}, {})
    /\ UNCHANGED <<storeVars, USER_MODE, fsm, joinTask, memberChecks, linkStarts,
                   chatTask, notices, rateVars>>

(***************************************************************************)
(* Initial stores and inputs                                               *)
(***************************************************************************)
\* the chat users taking part in a run
Actors == DOMAIN joinTask

Giveaway(ends_at, channel_username) ==
    [title |-> <<"T">>, description |-> <<>>, ends_at |-> ends_at, winners_count |-> 1,
     channel_username |-> channel_username, is_active |-> TRUE]

\* giveaways as the creation flow leaves them: a deadline, an optional channel
OpenGiveaways == (1 :> Giveaway(<<MaxTime>>, NoText))
GatedGiveaways ==
    (1 :> Giveaway(<<1>>, NoText))
        @@ (2 :> Giveaway(<<MaxTime>>, <<"@", "c", "h", "a", "n", "n">>))

\* the ids a callback may carry: the giveaways and one id that names none
GidInputs == DOMAIN giveaways \cup {Cardinality(DOMAIN giveaways) + 1}

CodeA == <<"A">>
RedeemTexts ==
    {CodeA, <<"B">>, <<"A", ":", "9">>, <<"C", "o", "d", "e", " ", "A">>,
     <<" ", "A", " ">>, <<"!">>, <<" ">>}
PromoTexts ==
    {CodeA} \cup {<<"A", ":", d>> : d \in {"0", "1", "2"}} \cup {<<"A", " ", "B">>}

DigitOf(n) == CHOOSE c \in Digits : DigitVal(c) = n

\* <host>/<bot>?start=ref_<gid>_<inviter>
RefPayload(gid, inviter) == RefPrefix \o <<DigitOf(gid), "_", DigitOf(inviter)>>
StartPayloads ==
    {<<>>, RefPrefix \o <<"1">>, RefPrefix \o <<"x", "_", "1">>}
        \cup {RefPayload(1, i) : i \in {1, 2}}

InitCommon(users) ==
    /\ now = 0
    /\ participants = {}
    /\ promocodes = {}
    /\ promouses = {}
    /\ USER_MODE = [u \in users |-> "user"]
    /\ fsm = [u \in users |-> NoState]
    /\ joinTask = [u \in users |-> <<>>]
    /\ memberChecks = {}
    /\ linkStarts = {}
    /\ chatTask = [u \in users |-> <<>>]
    /\ notices = {}
    /\ events = [k \in {} |-> <<>>]
    /\ admits = [k \in {} |-> <<>>]
    /\ resp = Resp("init", 0, 0, NoCode, 0, "", {}, {})

(***************************************************************************)
(* Spec: promo codes and their redemption                                  *)
(***************************************************************************)
Init ==
    /\ InitCommon(1..NUsers)
    /\ giveaways = OpenGiveaways
    /\ referrals = {}

Next ==
    \/ Tick
    \/ \E u \in Actors : SwitchAdmin(u)
    \/ \E u \in Actors : UserJoin(u, 1)
    \/ \E u \in Actors, gid \in GidInputs : UserCode(u, gid)
    \/ \E u \in Actors, text \in RedeemTexts : UserRedeemCode(u, text)
    \/ \E u \in Actors : AdminCreateCodeFromCard(u, 1)
    \/ \E u \in Actors, text \in PromoTexts : AdminCreateCodeValue(u, text)
    \/ \E max_uses \in 0..MaxUsesInput : WebCodesCreate(TRUE, 1, CodeA, max_uses)

Spec == Init /\ [][Next]_vars

(***************************************************************************)
(* SpecJoin: joining, the views and the expiry of giveaways, on a store    *)
(* whose referrals table is as the bot leaves it                           *)
(***************************************************************************)
InitJoin ==
    /\ InitCommon(1..NUsers)
    /\ giveaways = GatedGiveaways
    /\ referrals = {}

NextJoin ==
    \/ Tick
    \/ \E u \in Actors, payload \in StartPayloads : Start(u, payload)
    \/ \E u \in Actors : SwitchAdmin(u)
    \/ \E u \in Actors : SwitchUser(u)
    \/ \E u \in Actors : ShowActiveGiveaways(u)
    \/ \E u \in Actors, gid \in GidInputs : UserRef(u, gid)
    \/ \E u \in Actors, gid \in GidInputs : UserJoin(u, gid)
    \/ \E u \in Actors, gid \in GidInputs : UserJoinOk(u, gid)
    \/ \E u \in Actors, gid \in GidInputs : AdminDeleteOk(u, gid)
    \/ \E authed \in BOOLEAN : WebRoot(authed)

SpecJoin == InitJoin /\ [][NextJoin]_vars

(***************************************************************************)
(* SpecRef: joining on a store that holds Referral rows.  The bot reads    *)
(* the referrals table (handlers.py:603-610) and never writes it; its rows *)
(* are whatever the store holds: here one inviter, user 1, for every user, *)
(* user 1 included.                                                        *)
(***************************************************************************)
SeedReferrals ==
    {[id |-> 1, giveaway_id |-> 1, inviter_id |-> 1, invited_id |-> u] :
        u \in 1..NRefUsers}

InitRef ==
    /\ InitCommon(1..NRefUsers)
    /\ giveaways = OpenGiveaways
    /\ referrals = SeedReferrals

NextRef ==
    \/ Tick
    \/ \E u \in Actors : Start(u, RefPayload(1, u))
    \/ \E u \in Actors : UserJoin(u, 1)
    \/ \E u \in Actors : UserJoinOk(u, 1)
    \/ \E u \in Actors, delivered \in BOOLEAN : JoinResume(u, delivered)

SpecRef == InitRef /\ [][NextRef]_vars

(***************************************************************************)
(* SpecCreate: the administrator flows on an empty store                   *)
(***************************************************************************)
TitleTexts == {<<"T">>, <<" ">>}
DescriptionTexts == {<<"-">>}
DeadlineTexts == {<<"2", "0", "2", "6", "-", "1", "-", "1", " ", "0", ":", "0", "1">>, <<"2", "0", "2", "6", "-", "1", "3", "-", "0", "1", " ", "0", "0", ":", "0", "0">>, <<"x">>}
WinnersTexts == {<<"2">>, <<"0">>, <<"x">>, <<"sup2">>}
ChannelTexts == {<<"-">>, <<"@", "c", "h", "a", "n", "n">>, <<"t", ".", "m", "e", "/", "c", "h", "a", "n", "n">>, <<"@", "c", "h">>}
FlowPromoTexts == {<<"-">>, <<"A">>, <<"A", ":", "0">>, <<"A", ":", "sup2">>, <<"!">>}

InitCreate ==
    /\ InitCommon(1..NUsers)
    /\ giveaways = <<>>
    /\ referrals = {}

NextCreate ==
    \/ \E u \in Actors : SwitchAdmin(u)
    \/ \E u \in Actors : SwitchUser(u)
    \/ \E u \in Actors : AdminCreateGiveaway(u)
    \/ \E u \in Actors, text \in TitleTexts : CreateGiveawayTitle(u, text)
    \/ \E u \in Actors, text \in DescriptionTexts : CreateGiveawayDescription(u, text)
    \/ \E u \in Actors, text \in DeadlineTexts : CreateGiveawayDeadline(u, text)
    \/ \E u \in Actors, text \in WinnersTexts : CreateGiveawayWinners(u, text)
    \/ \E u \in Actors, text \in ChannelTexts : CreateGiveawayChannel(u, text)
    \/ \E u \in Actors, chat \in ChatTypes \cup {"error"} : ChannelResume(u, chat)
    \/ \E u \in Actors, text \in FlowPromoTexts : CreateGiveawayPromo(u, text)
    \/ \E u \in Actors : AdminCreateCodeFromCard(u, 1)
    \/ \E u \in Actors, text \in FlowPromoTexts : AdminCreateCodeValue(u, text)
    \/ \E u \in Actors : AdminDeleteOk(u, 1)
    \/ \E u \in Actors : UserCode(u, 1)

SpecCreate == InitCreate /\ [][NextCreate]_vars

(***************************************************************************)
(* SpecLife: the life of the Giveaway rows: creation by the web form,       *)
(* deactivation by the administrator and by the expiry seen on a read      *)
(***************************************************************************)
InitLife ==
    /\ InitCommon(1..NUsers)
    /\ giveaways = OpenGiveaways
    /\ referrals = {}

NextLife ==
    \/ Tick
    \/ \E u \in Actors : SwitchAdmin(u)
    \/ \E u \in Actors : SwitchUser(u)
    \/ \E authed \in BOOLEAN :
          /\ Len(giveaways) < MaxGiveaways
          /\ WebGiveawayCreate(authed, <<"T">>, 1, NoText)
    \/ \E u \in Actors, gid \in GidInputs : AdminDeleteOk(u, gid)
    \/ \E u \in Actors : ShowActiveGiveaways(u)
    \/ \E u \in Actors, gid \in GidInputs : UserJoin(u, gid)
    \/ \E u \in Actors, gid \in GidInputs : UserCode(u, gid)
    \/ \E u \in Actors : UserRedeemCode(u, CodeA)

SpecLife == InitLife /\ [][NextLife]_vars

(***************************************************************************)
(* SpecMember: calls of the two membership lookups                         *)
(***************************************************************************)
InitMember ==
    /\ InitCommon(1..NUsers)
    /\ giveaways = GatedGiveaways
    /\ referrals = {}

NextMember ==
    \/ \E u \in Actors, ch \in {<<"-">>, <<"@", "c", "h", "a", "n", "n">>},
          lookup \in ChatMemberStatuses \cup {"error"} :
          /\ Cardinality(memberChecks) < MaxChecks
          /\ EnsureSubscribed(u, ch, lookup)
    \/ \E u \in Actors, ch \in {NoText, <<"-">>, <<"@", "c", "h", "a", "n", "n">>},
          lookup \in ChatMemberStatuses \cup {"error"} :
          /\ Cardinality(memberChecks) < MaxChecks
          /\ CheckSubscriptionSoft(u, ch, lookup)

SpecMember == InitMember /\ [][NextMember]_vars

(***************************************************************************)
(* SpecRate: calls of SimpleRateLimit.allow as the clock advances          *)
(***************************************************************************)
RateKeys == {<<"k">>, <<"j">>}
RateTimes == {0, 1, PerWindow - 1, PerWindow, PerWindow + 1}

\* the admissions logged so far, over all keys
Admitted(key) == Len(LogOf(key).at)

InitRate ==
    /\ InitCommon(1..NUsers)
    /\ giveaways = <<>>
    /\ referrals = {}

NextRate ==
    \/ \E t \in RateTimes : RateTick(t)
    \/ \E key \in RateKeys, limit \in 1..MaxLimit, per_seconds \in {PerShort, PerWindow} :
          /\ Admitted(<<"k">>) + Admitted(<<"j">>) < MaxAdmits
          /\ allow(key, limit, per_seconds)

SpecRate == InitRate /\ [][NextRate]_vars

(***************************************************************************)
(* SpecMix: joins that credit an inviter (user 1, as in SpecRef) who also  *)
(* redeems a promo code of the giveaway                                    *)
(***************************************************************************)
NextMix ==
    \/ \E u \in Actors : UserJoin(u, 1)
    \/ \E u \in Actors, delivered \in BOOLEAN : JoinResume(u, delivered)
    \/ WebCodesCreate(TRUE, 1, CodeA, 1)
    \/ UserCode(1, 1)
    \/ UserRedeemCode(1, CodeA)

SpecMix == InitRef /\ [][NextMix]_vars

(***************************************************************************)
(* SpecFrame: redemptions on a store with two giveaways that may hold a    *)
(* code of the same text                                                   *)
(***************************************************************************)
NextFrame ==
    \/ \E u \in Actors : UserJoin(u, 1)
    \/ \E u \in Actors : UserJoinOk(u, 2)
    \/ \E gid \in DOMAIN giveaways : WebCodesCreate(TRUE, gid, CodeA, MaxUsesInput)
    \/ WebCodesCreate(TRUE, 1, <<"B">>, MaxUsesInput)
    \/ \E u \in Actors, gid \in DOMAIN giveaways : UserCode(u, gid)
    \/ \E u \in Actors, text \in {CodeA, <<"B">>} : UserRedeemCode(u, text)

SpecFrame == InitJoin /\ [][NextFrame]_vars

(***************************************************************************)
(* SpecLink: /start with well-formed and malformed referral payloads       *)
(***************************************************************************)
NextLink ==
    \/ \E u \in Actors : SwitchAdmin(u)
    \/ \E u \in Actors,
          payload \in StartPayloads
                        \cup {RefPayload(1, 2) \o <<"_", "3">>, RefPrefix \o <<"_", "1">>,
                              RefPrefix \o <<"1", "_">>, RefPayload(1, 2) \o <<"x">>} :
          Start(u, payload)

SpecLink == InitJoin /\ [][NextLink]_vars

(***************************************************************************)
(* SpecBurst: callers of SimpleRateLimit.allow that all give the same      *)
(* limit and window.  allow is a plain method without an await: on the     *)
(* event loop of the bot (main.py:35-40) a call runs to its end before the *)
(* next caller's call starts, also when the calls come at the same instant.*)
(***************************************************************************)
BurstLimit == MaxLimit - 1

NextBurst ==
    \/ \E t \in RateTimes : RateTick(t)
    \/ \E key \in RateKeys :
          /\ Admitted(<<"k">>) + Admitted(<<"j">>) < MaxAdmits
          /\ allow(key, BurstLimit, PerShort)

SpecBurst == InitRate /\ [][NextBurst]_vars

(***************************************************************************)
(* Properties of promo-code redemption                                     *)
(***************************************************************************)
UsesOf(pus, gid, code) == {x \in pus : x.giveaway_id = gid /\ x.code = code}

UsesBy(pus, gid, uid) == {x \in pus : x.giveaway_id = gid /\ x.user_id = uid}

HasUsed(uid, gid, code) ==
    \E x \in promouses : x.giveaway_id = gid /\ x.user_id = uid /\ x.code = code

\* the giveaway exists, its stored flag is active and its deadline is still ahead
GiveawayOpen(gid) ==
    /\ gid \in DOMAIN giveaways
    /\ giveaways[gid].is_active
    /\ (giveaways[gid].ends_at = <<>> \/ giveaways[gid].ends_at[1] > now)

IsParticipant(uid, gid) ==
    \E p \in participants : p.giveaway_id = gid /\ p.user_id = uid

HasCapacity(gid, code) ==
    \E c \in promocodes :
        c.giveaway_id = gid /\ c.code = code /\ c.is_active /\ c.uses < c.max_uses

\* the step is a redemption message whose text named a well-formed code
RedeemAttempt ==
    resp'.op = "redeem" /\ resp'.outcome \notin {"empty_text", "bad_format"}

RedeemFrame == UNCHANGED <<participants, promocodes, promouses>>

\* the step redeems: one PromoUse row more, uses and tickets one higher
Redeemed(uid, gid, code) ==
    /\ promouses' \ promouses = {[id |-> 1, giveaway_id |-> gid, user_id |-> uid,
                                  code |-> code]}
    /\ promouses \subseteq promouses'
    /\ \E c \in promocodes :
          /\ c.giveaway_id = gid /\ c.code = code
          /\ promocodes' = (promocodes \ {c}) \cup {[c EXCEPT !.uses = c.uses + 1]}
    /\ \E p \in participants :
          /\ p.giveaway_id = gid /\ p.user_id = uid
          /\ participants' = (participants \ {p}) \cup {[p EXCEPT !.tickets = p.tickets + 1]}

\* C1: a promo code created with max_uses = M >= 1 never has uses > M, and never
\* more than M PromoUse rows, whatever the order of the users' redemption attempts
C1_UsesWithinMax ==
    \A c \in promocodes :
        c.max_uses >= 1 =>
            /\ c.uses <= c.max_uses
            /\ Cardinality(UsesOf(promouses, c.giveaway_id, c.code)) <= c.max_uses

\* a user who has not redeemed the code is turned away from an exhausted code
C1_Witness ==
    /\ resp.op = "redeem"
    /\ resp.outcome = "code_invalid"
    /\ ~HasUsed(resp.user, resp.gid, resp.code)
    /\ \E c \in promocodes :
          /\ c.giveaway_id = resp.gid /\ c.code = resp.code
          /\ c.max_uses >= 1 /\ c.uses = c.max_uses

\* the first redemption of a code by a user, all preconditions met
FirstRedeem ==
    (/\ RedeemAttempt
     /\ GiveawayOpen(resp'.gid)
     /\ IsParticipant(resp'.user, resp'.gid)
     /\ HasCapacity(resp'.gid, resp'.code)
     /\ ~HasUsed(resp'.user, resp'.gid, resp'.code))
        => (resp'.outcome = "accepted" /\ Redeemed(resp'.user, resp'.gid, resp'.code))

\* C2 as claimed: the first redemption succeeds with tickets and uses one higher;
\* a second one by the same user, for any max_uses >= 1, is answered "already
\* redeemed" and changes no tickets, uses or PromoUse row
C2_SecondAlwaysAlreadyRedeemed ==
    [][/\ FirstRedeem
       /\ (/\ RedeemAttempt
           /\ GiveawayOpen(resp'.gid)
           /\ HasUsed(resp'.user, resp'.gid, resp'.code))
              => (resp'.outcome = "already_redeemed" /\ RedeemFrame)]_vars

\* C2 as amended: the first redemption succeeds with tickets and uses one higher;
\* a second one by the same user changes no tickets, uses or PromoUse row, and is
\* answered "already redeemed" while the code has uses < max_uses and "invalid
\* code" once it is exhausted (always so for max_uses = 1)
C2_SecondRejected ==
    [][/\ FirstRedeem
       /\ (/\ RedeemAttempt
           /\ GiveawayOpen(resp'.gid)
           /\ HasUsed(resp'.user, resp'.gid, resp'.code))
              => /\ RedeemFrame
                 /\ resp'.outcome = IF HasCapacity(resp'.gid, resp'.code)
                                    THEN "already_redeemed" ELSE "code_invalid"]_vars

\* a second redemption of a code with room left was answered "already redeemed"
C2_Witness ==
    /\ resp.op = "redeem"
    /\ resp.outcome = "already_redeemed"
    /\ HasUsed(resp.user, resp.gid, resp.code)
    /\ HasCapacity(resp.gid, resp.code)

\* C3: every step either leaves PromoUse, uses and tickets alone or is a redemption
\* that adds one PromoUse row and raises that code's uses and that participant's
\* tickets by exactly one; and uses always equals the number of PromoUse rows
C3_RedeemAllOrNothing ==
    /\ [](\A c \in promocodes :
              c.uses = Cardinality(UsesOf(promouses, c.giveaway_id, c.code)))
    /\ [][/\ (promouses' # promouses \/ promocodes' # promocodes)
               => \/ (resp'.op = "redeem" /\ resp'.outcome = "accepted"
                        /\ Redeemed(resp'.user, resp'.gid, resp'.code))
                  \/ (resp'.op \in {"adm_code_value", "web_codes_create"}
                        /\ resp'.outcome = "created" /\ promouses' = promouses
                        /\ promocodes \subseteq promocodes'
                        /\ \A c \in promocodes' \ promocodes : c.uses = 0)
          /\ resp'.op = "redeem"
               => \/ (resp'.outcome = "accepted"
                        /\ Redeemed(resp'.user, resp'.gid, resp'.code))
                  \/ (resp'.outcome # "accepted" /\ RedeemFrame)]_vars

C3_Witness ==
    /\ resp.op = "redeem"
    /\ resp.outcome = "accepted"
    /\ \E p \in participants :
          p.giveaway_id = resp.gid /\ p.user_id = resp.user /\ p.tickets = 2

\* C4: a redemption checks the giveaway, then the participation, then the code;
\* the first check that fails gives the answer, the three answers differ, and none
\* of them changes a PromoUse row, a uses or a tickets value
C4_ChecksInOrder ==
    [][RedeemAttempt =>
          /\ ~GiveawayOpen(resp'.gid)
                => resp'.outcome \in {"giveaway_inactive", "deadline_passed"}
          /\ (GiveawayOpen(resp'.gid) /\ ~IsParticipant(resp'.user, resp'.gid))
                => resp'.outcome = "not_participant"
          /\ (/\ GiveawayOpen(resp'.gid)
              /\ IsParticipant(resp'.user, resp'.gid)
              /\ ~HasCapacity(resp'.gid, resp'.code))
                => resp'.outcome = "code_invalid"
          /\ (/\ GiveawayOpen(resp'.gid)
              /\ IsParticipant(resp'.user, resp'.gid)
              /\ HasCapacity(resp'.gid, resp'.code))
                => resp'.outcome \in {"accepted", "already_redeemed"}
          /\ resp'.outcome \in {"giveaway_inactive", "deadline_passed",
                                "not_participant", "code_invalid"}
                => RedeemFrame]_vars

\* a user who has not joined names a code that does not exist: the participation
\* check answers
C4_Witness ==
    /\ resp.op = "redeem"
    /\ resp.outcome = "not_participant"
    /\ ~HasCapacity(resp.gid, resp.code)

(***************************************************************************)
(* Properties of joining and referrals                                     *)
(***************************************************************************)
\* the step is a join or join_ok callback of a user (not the commit that follows
\* the milestone notification)
JoinAttempt ==
    resp'.op \in {"join", "join_ok"} /\ joinTask[resp'.user] = <<>>

Gated(gid) == gid \in DOMAIN giveaways /\ giveaways[gid].channel_username # NoText

C6_ReferralSaved ==
    [][(resp'.op = "start" /\ resp'.outcome = "ref_welcome")
          => /\ referrals \subseteq referrals'
             /\ \E r \in referrals' :
                   /\ r.giveaway_id = resp'.gid /\ r.invited_id = resp'.user
                   /\ (ReferralRows(referrals, resp'.gid, resp'.user) = {}
                          => r.inviter_id = resp'.inviter)]_vars

\* the users through whose link uid started the bot for gid
LinkInviters(gid, uid) == {i \in Actors : <<gid, i, uid>> \in linkStarts}

\* C7, step by step: a participant row starts at invited_count 0 and tickets 1;
\* each join of a user who started through the link of one inviter, that inviter
\* being a participant without redemptions, raises the inviter's invited_count by
\* one and the inviter's tickets by one at every fifth
C7_InviterCredited ==
    [][\A i \in Actors :
          (/\ JoinAttempt
           /\ resp'.outcome = "joined"
           /\ LinkInviters(resp'.gid, resp'.user) = {i}
           /\ IsParticipant(i, resp'.gid)
           /\ UsesBy(promouses, resp'.gid, i) = {}
           /\ joinTask' = joinTask)
              => \E p \in participants, q \in participants' :
                    /\ p.giveaway_id = resp'.gid /\ p.user_id = i
                    /\ q.giveaway_id = resp'.gid /\ q.user_id = i
                    /\ q.invited_count = p.invited_count + 1
                    /\ q.tickets = p.tickets
                          + (IF q.invited_count % InviteMilestone = 0 THEN 1 ELSE 0)]_vars

\* the row of user uid in giveaway gid, as a set
RowsOf(tbl, gid, uid) == {p \in tbl : p.giveaway_id = gid /\ p.user_id = uid}

\* C8: a /start naming the starting user as inviter creates no Referral row, and
\* a user's own join gives that user no referral credit: after it the user's row
\* is as before, or new with tickets 1 and invited_count 0
C8_NoSelfReferral ==
    [][/\ (resp'.op = "start" /\ resp'.inviter = resp'.user) => referrals' = referrals
       /\ resp'.op \in {"join", "join_ok"}
            => \A q \in RowsOf(participants', resp'.gid, resp'.user) :
                  \/ q \in participants
                  \/ (q.tickets = 1 /\ q.invited_count = 0)]_vars

\* a user holding a Referral row that names the user as the inviter has joined
C8_Witness ==
    /\ resp.op \in {"join", "join_ok"}
    /\ resp.outcome = "joined"
    /\ \E r \in referrals :
          r.giveaway_id = resp.gid /\ r.invited_id = resp.user /\ r.inviter_id = resp.user
    /\ IsParticipant(resp.user, resp.gid)

\* C9: an operation that loads a giveaway past its deadline with the stored flag
\* active does not present it as active and leaves the stored flag false
C9_DeactivatedOnRead ==
    [][\A g \in resp'.read :
          Expired(giveaways[g], now)
              => (~giveaways'[g].is_active /\ g \notin resp'.listed)]_vars

\* the same, of the handlers of the bot alone
C9_BotDeactivatesOnRead ==
    [][resp'.op # "web_root" =>
          \A g \in resp'.read :
              Expired(giveaways[g], now)
                  => (~giveaways'[g].is_active /\ g \notin resp'.listed)]_vars

MemberStatuses == {"creator", "administrator", "member", "restricted"}

\* C10: a Participant row of a giveaway with a channel exists only for a user
\* whose membership of that channel was queried and found to be a member status
C10_GatedJoinVerified ==
    \A p \in participants :
        Gated(p.giveaway_id)
            => \E m \in memberChecks :
                  /\ m[1] = giveaways[p.giveaway_id].channel_username
                  /\ m[2] = p.user_id
                  /\ m[3] \in MemberStatuses

(***************************************************************************)
(* Properties of the administrator flows                                   *)
(***************************************************************************)
\* the step adds a Giveaway row
GiveawayCreated == Len(giveaways') > Len(giveaways)

\* the channel the step accepted: the skip of a direct answer, or the name the
\* suspended step was resolving
AcceptedChannel(u) == IF resp'.op = "channel_resume" THEN chatTask[u][1] ELSE NoText

\* the new row holds the values the steps before collected for user u
RowAsCollected(u) ==
    LET d == fsm[u].data
        g == giveaways'[Len(giveaways')]
    IN  /\ {"title", "description", "ends_at", "winners_count"} \subseteq DOMAIN d
        /\ g.title = d["title"]
        /\ g.description = d["description"]
        /\ g.ends_at = d["ends_at"]
        /\ g.winners_count = d["winners_count"]
        /\ g.channel_username = AcceptedChannel(u)
        /\ g.is_active

\* the rows there were are still there, at most their flag changed
RowsKept ==
    /\ Len(giveaways') >= Len(giveaways)
    /\ \A i \in 1..Len(giveaways) :
          [giveaways'[i] EXCEPT !.is_active = TRUE] = [giveaways[i] EXCEPT !.is_active = TRUE]

C11_OneRowWhenSerial ==
    [][(/\ GiveawayCreated
        /\ \/ resp'.op = "channel"
           \/ (resp.op = "channel" /\ resp.outcome = "resolving" /\ resp.user = resp'.user))
          => /\ resp'.outcome = "created"
             /\ fsm[resp'.user].state = "CreateGiveaway.channel"
             /\ RowAsCollected(resp'.user)
             /\ fsm'[resp'.user].state = "CreateGiveaway.promo"]_vars

\* a run created a row for a channel that resolved
C11_SerialWitness ==
    /\ resp.op = "channel_resume"
    /\ resp.outcome = "created"
    /\ giveaways[resp.gid].channel_username # NoText

\* the mutations an administrator makes through the bot
AdminMutation ==
    \/ GiveawayCreated
    \/ promocodes' # promocodes
    \/ (resp'.op = "del_ok" /\ giveaways' # giveaways)

\* the user is in the admin set and in admin mode
InAdminMode(u) == u \in ADMIN_IDS /\ USER_MODE[u] = "admin"

YoungerThan(at, t, per_seconds) ==
    Cardinality({i \in 1..Len(at) : t - at[i] < per_seconds})

\* how often timestamp t occurs in arr
Occurrences(arr, t) == Cardinality({i \in 1..Len(arr) : arr[i] = t})

\* the call of step allow(key, limit, per_seconds) answers by the admissions of the
\* key that are younger than per_seconds; admitted, it records its timestamp once;
\* denied, it records none; the other keys keep their events
AllowByWindow ==
    LET key == resp'.code
        limit == resp'.gid
        per_seconds == resp'.inviter
    IN  /\ (resp'.outcome = "admitted")
              <=> (YoungerThan(LogOf(key).at, now, per_seconds) < limit)
        /\ Occurrences(EventsOf(events', key), now)
              = Occurrences(EventsOf(events, key), now)
                   + (IF resp'.outcome = "admitted" THEN 1 ELSE 0)
        /\ \A k \in DOMAIN events \ {key} : k \in DOMAIN events' /\ events'[k] = events[k]

\* C13 as claimed: allow(key, limit, per_seconds) returns true exactly when fewer
\* than limit previously admitted events of the key are younger than per_seconds;
\* an admitted call records its timestamp and a denied call records nothing
C13_AllowExactly ==
    [][resp'.op = "allow" => AllowByWindow]_vars

\* C13 as amended: the same of every call whose per_seconds is not larger than the
\* per_seconds of any earlier call for the key (a call drops the events older than
\* its own window for good, a later call with a longer window no longer counts
\* them)
C13_AllowExactlyWhenWindowKept ==
    [][(/\ resp'.op = "allow"
        /\ (LogOf(resp'.code).per = 0 \/ resp'.inviter <= LogOf(resp'.code).per))
          => AllowByWindow]_vars

\* limit admissions in one window, and one more admission of the same key after
\* the window has elapsed, all calls with the same window
C13_Witness ==
    /\ resp.op = "allow"
    /\ resp.outcome = "admitted"
    /\ resp.gid = MaxLimit
    /\ resp.inviter = PerWindow
    /\ LogOf(resp.code).per = PerWindow
    /\ Len(LogOf(resp.code).at) = MaxLimit + 1
    /\ LogOf(resp.code).at[MaxLimit] - LogOf(resp.code).at[1] < PerWindow
    /\ now - LogOf(resp.code).at[1] >= PerWindow

(***************************************************************************)
(* Properties of the referral credit                                       *)
(***************************************************************************)
\* the step completes a join that credits an inviter: at once, or by the commit
\* that follows the milestone notification
CreditCommitted ==
    /\ resp'.op \in {"join", "join_ok"}
    /\ resp'.outcome = "joined"
    /\ resp'.inviter # 0

\* C14: every join of an invited user whose inviter takes part raises the stored
\* invited_count of the inviter by exactly one, and the stored tickets by one
\* exactly when the new count is a multiple of five, however the handlers of the
\* joining users interleave at the await of the notification; two such joins
\* raise the count by two
C14_NoCreditLost ==
    [][CreditCommitted
          => \E p \in participants, q \in participants' :
                /\ p.giveaway_id = resp'.gid /\ p.user_id = resp'.inviter
                /\ q.giveaway_id = resp'.gid /\ q.user_id = resp'.inviter
                /\ q.invited_count = p.invited_count + 1
                /\ q.tickets = p.tickets
                      + (IF q.invited_count % InviteMilestone = 0 THEN 1 ELSE 0)]_vars

\* the inviter the Referral row of user uid names for giveaway gid has no
\* Participant row
InviterAbsent(gid, uid) ==
    \E r \in referrals :
        /\ r.giveaway_id = gid /\ r.invited_id = uid /\ r.inviter_id # uid
        /\ ~IsParticipant(r.inviter_id, gid)

\* C15: a join of a user whose inviter has no Participant row only adds the row of
\* the joining user and leaves nothing pending; every new Participant row, the row
\* of an inviter who joins after invited users included, starts with tickets 1
\* and invited_count 0
C15_NoCreditForAbsentInviter ==
    [][/\ (JoinAttempt /\ InviterAbsent(resp'.gid, resp'.user))
             => /\ participants \subseteq participants'
                /\ \A q \in participants' \ participants : q.user_id = resp'.user
                /\ joinTask' = joinTask
                /\ notices' = notices
       /\ \A q \in participants' :
             RowsOf(participants, q.giveaway_id, q.user_id) = {}
                => (q.tickets = 1 /\ q.invited_count = 0)]_vars

\* the inviter joined after an invited user had joined
C15_Witness ==
    /\ resp.op \in {"join", "join_ok"}
    /\ resp.outcome = "joined"
    /\ \E r \in referrals, p \in participants :
          /\ r.giveaway_id = resp.gid /\ r.inviter_id = resp.user
          /\ r.invited_id # resp.user
          /\ p.giveaway_id = resp.gid /\ p.user_id = r.invited_id
    /\ \E q \in participants :
          /\ q.giveaway_id = resp.gid /\ q.user_id = resp.user
          /\ q.tickets = 1 /\ q.invited_count = 0

\* the step ends a join that was waiting for the milestone notification, and the
\* notification was not delivered
NotifyFailed(u) ==
    joinTask[u] # <<>> /\ joinTask'[u] = <<>> /\ notices' = notices

\* C16: when the milestone notification fails, the inviter's row is stored with
\* the count and the tickets the join computed, the row of the joining user stays,
\* and the joining user is answered that the join succeeded
C16_FailedNoticeKeepsJoin ==
    [][\A u \in Actors :
          NotifyFailed(u)
             => /\ joinTask[u][1].row \in participants'
                /\ \A p \in participants : p.user_id = u => p \in participants'
                /\ \E p \in participants' :
                      p.user_id = u /\ p.giveaway_id = joinTask[u][1].gid
                /\ resp'.user = u
                /\ resp'.outcome = "joined"]_vars

\* an inviter has reached the milestone, with the ticket, and no notification was
\* ever delivered
C16_Witness ==
    /\ resp.op \in {"join", "join_ok"}
    /\ resp.outcome = "joined"
    /\ notices = {}
    /\ \E p \in participants :
          /\ p.giveaway_id = resp.gid /\ p.user_id = resp.inviter
          /\ p.invited_count = InviteMilestone /\ p.tickets = 2

\* C17: when a milestone notification is delivered, the store already holds the
\* inviter's row with the invited_count the notification is about
C17_NotifyAfterCommit ==
    [][\A n \in notices' \ notices :
          \E p \in participants :
             /\ p.giveaway_id = n[1] /\ p.user_id = n[2]
             /\ p.invited_count >= n[3]]_vars

(***************************************************************************)
(* Properties of closed giveaways and of the rejected inputs               *)
(***************************************************************************)
\* C18: a join or join_ok for a giveaway that does not exist, whose stored flag is
\* inactive or whose deadline has passed inserts no Participant row, changes no
\* invited_count or tickets, and leaves no join pending
C18_ClosedGiveawayNoJoin ==
    [][(JoinAttempt /\ ~GiveawayOpen(resp'.gid))
          => /\ participants' = participants
             /\ joinTask' = joinTask
             /\ resp'.outcome \in {"not_found", "finished"}]_vars

\* a user without a row was turned away from a giveaway whose deadline had come
\* while its stored flag was still active
C18_Witness ==
    /\ resp.op \in {"join", "join_ok"}
    /\ resp.outcome = "finished"
    /\ resp.gid \in DOMAIN giveaways
    /\ giveaways[resp.gid].ends_at # <<>>
    /\ giveaways[resp.gid].ends_at[1] = now
    /\ ~IsParticipant(resp.user, resp.gid)

\* the answers of user_redeem_code that reject the input
RedeemRejections ==
    {"empty_text", "bad_format", "not_participant", "code_invalid", "already_redeemed"}

\* C19: every rejected input of the promo-entry state leaves the user in that
\* state for the same giveaway
C19_RejectedKeepsState ==
    [][(resp'.op = "redeem" /\ resp'.outcome \in RedeemRejections)
          => fsm'[resp'.user] = fsm[resp'.user]]_vars

\* the steps of the administrator flows
AdminFlowOps ==
    {"create", "title", "description", "deadline", "winners", "channel", "promo",
     "adm_code", "adm_code_value"}

\* C20: a step of an administrator flow attempted by a user who is not both in the
\* admin set and in admin mode clears the user's conversation state, is answered
\* with the access-denied response, and creates or changes no row
C20_DeniedAndCleared ==
    [][(resp'.op \in AdminFlowOps /\ ~InAdminMode(resp'.user))
          => /\ fsm'[resp'.user] = NoState
             /\ resp'.outcome = "denied"
             /\ UNCHANGED storeVars]_vars

\* the part of it that holds: no row is created or changed
C20_DeniedNoRow ==
    [][(resp'.op \in AdminFlowOps /\ ~InAdminMode(resp'.user))
          => UNCHANGED storeVars]_vars

(***************************************************************************)
(* Properties of the conversation states                                   *)
(***************************************************************************)
\* the handlers of the creation states and of the promo-creation states
FormStepOps ==
    {"title", "description", "deadline", "winners", "channel", "channel_resume",
     "promo", "adm_code_value"}

\* their answers to an input that fails validation; "error" is the ValueError of
\* int() leaving the handler
ValidationFailures ==
    {"empty_title", "bad_deadline", "bad_winners", "bad_channel", "chat_not_found",
     "private_chat", "not_a_channel", "bad_max", "bad_format", "error"}

\* C21: in every giveaway-creation state and promo-creation state, an input that
\* fails validation leaves the conversation state of every user, the fields
\* collected so far and every table unchanged
C21_InvalidInputChangesNothing ==
    [][(resp'.op \in FormStepOps /\ resp'.outcome \in ValidationFailures)
          => fsm' = fsm /\ UNCHANGED storeVars]_vars

\* the chat named in the channel step turned out to be a private account: the
\* administrator is still in the channel step with the collected fields
C21_Witness ==
    /\ resp.op = "channel_resume"
    /\ resp.outcome = "private_chat"
    /\ fsm[resp.user].state = "CreateGiveaway.channel"
    /\ "winners_count" \in DOMAIN fsm[resp.user].data
    /\ "title" \in DOMAIN fsm[resp.user].data

\* the state a flow starts in: its first state, and no data but the giveaway the
\* flow is entered for
FreshFlow(state, data) == [state |-> state, data |-> data]

\* C22: starting a flow (giveaway creation, promo creation from a card, promo
\* entry) replaces the user's previous state and data by the fresh state of the
\* new flow, and no handler run changes the state or data of another user
C22_FlowStartDiscards ==
    [][/\ (resp'.op = "create" /\ resp'.outcome = "ask_title")
            => fsm'[resp'.user] = FreshFlow("CreateGiveaway.title", EmptyData)
       /\ (resp'.op = "adm_code" /\ resp'.outcome = "prompt")
            => fsm'[resp'.user] = FreshFlow("CreatePromo.value", "giveaway_id" :> resp'.gid)
       /\ resp'.op = "code"
            => fsm'[resp'.user] = FreshFlow("RedeemPromo.value", "giveaway_id" :> resp'.gid)
       /\ \A v \in Actors \ {resp'.user} : fsm'[v] = fsm[v]]_vars

\* a user entered the promo-entry flow while the administrator was in the
\* middle of the creation flow with fields collected
C22_Witness ==
    /\ resp.op = "code"
    /\ fsm[resp.user] = FreshFlow("RedeemPromo.value", "giveaway_id" :> resp.gid)
    /\ \E v \in Actors \ {resp.user} :
          /\ fsm[v].state = "CreateGiveaway.winners"
          /\ "ends_at" \in DOMAIN fsm[v].data

(***************************************************************************)
(* Properties of the PromoCode rows                                        *)
(***************************************************************************)
\* the two promo-creation steps of the bot
PromoCreationOps == {"promo", "adm_code_value"}

OneRowPerCode ==
    \A c1, c2 \in promocodes :
        (c1.giveaway_id = c2.giveaway_id /\ c1.code = c2.code) => c1 = c2

\* C23: in the promo-creation states a code that already exists for the giveaway
\* is answered with the conflict, adds no row, changes no PromoCode row and
\* leaves the administrator in the same state with the same data; and no
\* reachable state holds two PromoCode rows for one (giveaway, code)
C23_DuplicateCodeRefused ==
    /\ []OneRowPerCode
    /\ [][resp'.op \in PromoCreationOps
            => /\ resp'.outcome = "created"
                    => PromoCodeRows(promocodes, resp'.gid, resp'.code) = {}
               /\ resp'.outcome = "code_exists"
                    => /\ PromoCodeRows(promocodes, resp'.gid, resp'.code) # {}
                       /\ promocodes' = promocodes
                       /\ fsm' = fsm]_vars

\* the administrator sent, from a giveaway card, a code the giveaway already has
C23_Witness ==
    /\ resp.op = "adm_code_value"
    /\ resp.outcome = "code_exists"
    /\ fsm[resp.user] = FreshFlow("CreatePromo.value", "giveaway_id" :> resp.gid)
    /\ Cardinality(PromoCodeRows(promocodes, resp.gid, resp.code)) = 1

\* C24: every PromoCode row, whichever path created it, has max_uses >= 1, and a
\* creation adds its row with uses = 0 and is_active = true
C24_CreatedCodesWellFormed ==
    /\ [](\A pc \in promocodes : pc.max_uses >= 1)
    /\ [][\A pc \in promocodes' \ promocodes : pc.uses = 0 /\ pc.is_active]_vars

\* the part of it that holds for the two creation steps of the bot
C24_BotCodesWellFormed ==
    [][resp'.op \in PromoCreationOps
          => \A pc \in promocodes' \ promocodes :
                pc.max_uses >= 1 /\ pc.uses = 0 /\ pc.is_active]_vars

(***************************************************************************)
(* Properties of the Giveaway rows                                         *)
(***************************************************************************)
\* row g differs from its former value at most by a flag that went to false
KeptOrDeactivated(g) ==
    \/ giveaways'[g] = giveaways[g]
    \/ (giveaways[g].is_active /\ giveaways'[g] = [giveaways[g] EXCEPT !.is_active = FALSE])

\* C25: no step removes a Giveaway row or turns its is_active flag from false to
\* true, and del_ok only sets the flag of its giveaway to false
C25_GiveawayKeptFlagOneWay ==
    [][/\ DOMAIN giveaways \subseteq DOMAIN giveaways'
       /\ \A g \in DOMAIN giveaways : KeptOrDeactivated(g)
       /\ resp'.op = "del_ok"
            => /\ DOMAIN giveaways' = DOMAIN giveaways
               /\ \A g \in DOMAIN giveaways \ {resp'.gid} : giveaways'[g] = giveaways[g]
               /\ UNCHANGED <<participants, referrals, promocodes, promouses>>]_vars

\* the administrator deleted a giveaway that the web form had created: the row
\* is still there, inactive
C25_Witness ==
    /\ resp.op = "del_ok"
    /\ resp.outcome = "deleted"
    /\ resp.gid = 2
    /\ Len(giveaways) = 2
    /\ ~giveaways[2].is_active

(***************************************************************************)
(* Properties of the membership lookups                                    *)
(***************************************************************************)
\* the call of this step whose bot.get_chat_member raised
LookupFailed ==
    /\ resp'.op \in {"ensure_subscribed", "check_subscription_soft"}
    /\ <<resp'.code, resp'.user, "error">> \in memberChecks' \ memberChecks

\* C26: a membership lookup that fails is never answered with the not-a-member
\* result, by neither function
C26_FailedLookupNotUnsubscribed ==
    [][LookupFailed => resp'.outcome # "False"]_vars

\* the part of it that holds: check_subscription_soft answers None
C26_SoftCannotVerify ==
    [][(LookupFailed /\ resp'.op = "check_subscription_soft") => resp'.outcome = None]_vars

(***************************************************************************)
(* Properties of the rate limiter under callers at the same instant        *)
(***************************************************************************)
\* the admissions of the key whose timestamps lie in the window that starts at s
InWindow(at, s, per_seconds) ==
    {i \in 1..Len(at) : s <= at[i] /\ at[i] - s < per_seconds}

\* C27: with all callers of a key giving the same limit and window, no window
\* holds more than limit admitted timestamps of the key, and every admitted
\* timestamp that is still younger than the window is in the key's list of events
\* as often as it was admitted
C27_BurstWithinLimit ==
    \A key \in DOMAIN admits :
        LET at == admits[key].at
        IN  /\ \A i \in 1..Len(at) :
                  Cardinality(InWindow(at, at[i], PerShort)) <= BurstLimit
            /\ key \in DOMAIN events
            /\ \A i \in 1..Len(at) :
                  now - at[i] < PerShort
                      => Occurrences(events[key], at[i]) = Occurrences(at, at[i])

\* limit callers were admitted at one instant and one more caller of that instant
\* was denied
C27_Witness ==
    /\ resp.op = "allow"
    /\ resp.outcome = "denied"
    /\ Occurrences(LogOf(resp.code).at, now) = BurstLimit
    /\ Occurrences(events[resp.code], now) = BurstLimit

(***************************************************************************)
(* Properties of the referral payload                                      *)
(***************************************************************************)
\* an integer field: an optional sign and decimal digits
IntegerField(f) ==
    IsDecimal(IF f # <<>> /\ Head(f) \in {"+", "-"} THEN Tail(f) ELSE f)

\* what follows ref_ is exactly two "_"-separated integer fields
TwoIntegerFields(payload) ==
    LET f == SplitAll(SubSeq(payload, Len(RefPrefix) + 1, Len(payload)), "_")
    IN  Len(f) = 2 /\ IntegerField(f[1]) /\ IntegerField(f[2])

\* C28: /start with a payload that begins with ref_ accepts the payload only if
\* what follows is exactly two "_"-separated integer fields; every other such
\* payload is answered with the invalid-link response, and no row is created or
\* changed
C28_OnlyTwoIntegerFields ==
    [][(resp'.op = "start" /\ StartsWith(resp'.code, RefPrefix))
          => /\ UNCHANGED storeVars
             /\ resp'.outcome \in {"own_link", "ref_welcome", "invalid_link"}
             /\ resp'.outcome # "invalid_link" => TwoIntegerFields(resp'.code)]_vars

\* the part of it that holds: a payload with a missing or non-integer field is
\* answered with the invalid-link response, and no /start changes a row
C28_MalformedRefused ==
    [][(resp'.op = "start" /\ StartsWith(resp'.code, RefPrefix))
          => /\ UNCHANGED storeVars
             /\ resp'.outcome \in {"own_link", "ref_welcome", "invalid_link"}
             /\ (Len(SplitRef(resp'.code)) < 3
                   \/ \E i \in {2, 3} : ~PyIntOk(SplitRef(resp'.code)[i]))
                  => resp'.outcome = "invalid_link"]_vars

(***************************************************************************)
(* Properties of the tickets of a participant                              *)
(***************************************************************************)
\* the tickets the row should hold: one for the join, one per milestone of
\* invited users, one per redeemed code
TicketsDue(p) ==
    1 + (p.invited_count \div InviteMilestone)
      + Cardinality(UsesBy(promouses, p.giveaway_id, p.user_id))

\* C29: in every reachable state every Participant row holds tickets = 1 +
\* floor(invited_count / 5) + the number of its PromoUse rows, with tickets >= 1
\* and invited_count >= 0, and neither value of a row ever decreases
C29_TicketsAccounted ==
    /\ [](\A p \in participants :
             p.tickets = TicketsDue(p) /\ p.tickets >= 1 /\ p.invited_count >= 0)
    /\ [][\A p \in participants :
             \E q \in ParticipantRows(participants', p.giveaway_id, p.user_id) :
                 q.tickets >= p.tickets /\ q.invited_count >= p.invited_count]_vars

(***************************************************************************)
(* Properties of a deactivated giveaway                                    *)
(***************************************************************************)
\* the Participant rows of giveaway g
RowsOfGiveaway(tbl, g) == {p \in tbl : p.giveaway_id = g}

\* C30: once the stored is_active flag of a giveaway is false, no step inserts a
\* Participant row of it or changes the tickets or invited_count of one of its
\* rows, a handler that began before the deactivation included
C30_InactiveGiveawayFrozen ==
    [][\A g \in DOMAIN giveaways :
          ~giveaways[g].is_active => RowsOfGiveaway(participants', g) = RowsOfGiveaway(participants, g)]_vars

\* the part of it that holds: a handler that starts once the flag is false
\* inserts and changes nothing
C30_InactiveAtStartFrozen ==
    [][\A g \in DOMAIN giveaways :
          (~giveaways[g].is_active /\ joinTask[resp'.user] = <<>>)
              => RowsOfGiveaway(participants', g) = RowsOfGiveaway(participants, g)]_vars

(***************************************************************************)
(* Properties of the frame of a redemption                                 *)
(***************************************************************************)
\* the step is an accepted redemption
Accepted == resp'.op = "redeem" /\ resp'.outcome = "accepted"

\* table tbl2 is table tbl with the one row of set mine replaced by row
OnlyRowChanged(tbl, tbl2, mine, row) ==
    /\ Cardinality(mine) = 1
    /\ tbl2 = (tbl \ mine) \cup {row}

\* C31: an accepted redemption by user u of code c, in the flow entered for
\* giveaway g, adds one to the uses of PromoCode (g, c) and to the tickets of
\* Participant (g, u), adds the PromoUse row (g, u, c), and leaves every other
\* row as it was: the rows of the other giveaways (a code of the same text
\* included), the Participant rows of the other users, the other codes
C31_RedemptionFrame ==
    [][Accepted =>
          LET g == resp'.gid
              u == resp'.user
              c == resp'.code
              pcs == {pc \in promocodes : pc.giveaway_id = g /\ pc.code = c}
              ps == {p \in participants : p.giveaway_id = g /\ p.user_id = u}
              pc == CHOOSE x \in pcs : TRUE
              p == CHOOSE x \in ps : TRUE
          IN  /\ g = fsm[u].data["giveaway_id"]
              /\ OnlyRowChanged(promocodes, promocodes', pcs,
                                [pc EXCEPT !.uses = pc.uses + 1])
              /\ OnlyRowChanged(participants, participants', ps,
                                [p EXCEPT !.tickets = p.tickets + 1])
              /\ promouses \subseteq promouses'
              /\ Cardinality(promouses' \ promouses) = 1
              /\ \A x \in promouses' \ promouses :
                    x.giveaway_id = g /\ x.user_id = u /\ x.code = c
              /\ UNCHANGED <<giveaways, referrals>>]_vars

\* a user who takes part in both giveaways redeemed code A of giveaway 1 while
\* giveaway 2 holds a code of the same text, giveaway 1 another code, and the
\* other user takes part in giveaway 1
C31_Witness ==
    /\ resp.op = "redeem"
    /\ resp.outcome = "accepted"
    /\ resp.gid = 1
    /\ resp.code = CodeA
    /\ \E pc \in promocodes : pc.giveaway_id = 2 /\ pc.code = CodeA /\ pc.uses = 0
    /\ \E pc \in promocodes : pc.giveaway_id = 1 /\ pc.code = <<"B">> /\ pc.uses = 0
    /\ \E p \in participants :
          p.giveaway_id = 2 /\ p.user_id = resp.user /\ p.tickets = 1
    /\ \E p \in participants :
          p.giveaway_id = 1 /\ p.user_id # resp.user /\ p.tickets = 1
    /\ \E p \in participants :
          p.giveaway_id = 1 /\ p.user_id = resp.user /\ p.tickets = 2

====
